---- MODULE Spec2Model ----
(***************************************************************************)
(* A model of the pdfdownload harvesting pipeline (mgijax/pdfdownload).    *)
(*                                                                         *)
(* Part A models the PMC downloader: backPopulate.process, the             *)
(* PMCfileRangler search / filter / queue / reconcile loop, the            *)
(* PMCsearchReporter bookkeeping and the NoPdfWriter failure listing with  *)
(* its Download_Tries carried over from the previous run's listing.        *)
(* Part B models the Elsevier downloader's downloadPapers.  A behaviour    *)
(* of Spec is a run of one of the two downloaders.                         *)
(* Parts C to H model units on their own, each under its own               *)
(* specification: the start of a script (SpecStartup), the PubMed dates    *)
(* and the window test (SpecDates), XmlReader.fromstring (SpecXml),        *)
(* MapCache (SpecMapCache), SciDirectLib's requests and searches           *)
(* (SpecSciDirect) and the main program of the Elsevier downloader with    *)
(* its three caches (SpecMain).                                            *)
(*                                                                         *)
(* Text is modelled as sequences of one-character strings, so formatting   *)
(* (the % templates, center, rjust) and parsing (the article-line regular  *)
(* expression, date.fromisoformat) are computed character by character.    *)
(*                                                                         *)
(* Line 724 of src/pmc/backPopulate.py is a debug statement with an        *)
(* unclosed parenthesis; it is modelled as having no effect on the state.  *)
(***************************************************************************)
EXTENDS Integers, Sequences, FiniteSets, TLC

\* Python's None where a str is expected (no text has this one element)
None == <<"None">>

(***************************************************************************)
(* Bounds of the model (not program constants).                            *)
(***************************************************************************)
\* articles returned by all the searches of a behaviour, all runs together
MaxResults == 3
\* consecutive runs of the PMC downloader over the same failure listing
MaxRuns == 2
\* search results handed to one call of the Elsevier downloadPapers
MaxElsResults == 2

(***************************************************************************)
(* Text helpers: Python's str methods on sequences of characters.          *)
(***************************************************************************)
Digits == <<"0","1","2","3","4","5","6","7","8","9">>

IsDigit(c) == \E i \in 1..10 : Digits[i] = c

DigitVal(c) == (CHOOSE i \in 1..10 : Digits[i] = c) - 1

\* \s of the re module, for the characters that occur
IsSpace(c) == c \in {" ", "\t", "\n"}

RECURSIVE NatStr(_)
NatStr(n) ==
  IF n < 10 THEN <<Digits[n + 1]>>
  ELSE NatStr(n \div 10) \o <<Digits[(n % 10) + 1]>>

\* str(n) of an int
Str(n) == IF n < 0 THEN <<"-">> \o NatStr(0 - n) ELSE NatStr(n)

RECURSIVE IntOf(_)
\* int(s) of a string of digits
IntOf(s) ==
  IF Len(s) = 0 THEN 0
  ELSE 10 * IntOf(SubSeq(s, 1, Len(s) - 1)) + DigitVal(s[Len(s)])

Fill(c, n) == [i \in 1..n |-> c]

\* s.rjust(w, c), and '%ws' % s with c = ' '
rjust(s, w, c) == IF Len(s) >= w THEN s ELSE Fill(c, w - Len(s)) \o s

\* '%-ws' % s
ljust(s, w) == IF Len(s) >= w THEN s ELSE s \o Fill(" ", w - Len(s))

\* s.center(w): CPython puts the odd blank on the left when w is odd
center(s, w) ==
  IF Len(s) >= w THEN s
  ELSE LET marg == w - Len(s)
           left == (marg \div 2) + (IF marg % 2 = 1 /\ w % 2 = 1 THEN 1 ELSE 0)
       IN  Fill(" ", left) \o s \o Fill(" ", marg - left)

\* s.replace(a, b) for single characters
Replace(s, a, b) == [i \in 1..Len(s) |-> IF s[i] = a THEN b ELSE s[i]]

RECURSIVE FindChar(_, _, _)
\* index of the first c in s at or after i, or 0
FindChar(s, c, i) ==
  IF i > Len(s) THEN 0
  ELSE IF s[i] = c THEN i
  ELSE FindChar(s, c, i + 1)

\* s.split(c)[0]
SplitHead(s, c) ==
  LET k == FindChar(s, c, 1)
  IN  IF k = 0 THEN s ELSE SubSeq(s, 1, k - 1)

\* ord(c) for the characters of the dates the program compares
Ord(c) ==
  IF c = "-" THEN 45
  ELSE IF c = "/" THEN 47
  ELSE IF IsDigit(c) THEN 48 + DigitVal(c)
  ELSE 65

RECURSIVE StrLess(_, _)
\* a < b of two str, lexicographically
StrLess(a, b) ==
  IF Len(b) = 0 THEN FALSE
  ELSE IF Len(a) = 0 THEN TRUE
  ELSE IF Ord(a[1]) # Ord(b[1]) THEN Ord(a[1]) < Ord(b[1])
  ELSE StrLess(Tail(a), Tail(b))

AllDigits(s) == Len(s) > 0 /\ \A i \in 1..Len(s) : IsDigit(s[i])

(***************************************************************************)
(* datetime.date: fromisoformat, toordinal.                                *)
(***************************************************************************)
IsLeap(y) == (y % 4 = 0) /\ ((y % 100 # 0) \/ (y % 400 = 0))

DaysInMonth(y, m) ==
  IF m = 2 THEN (IF IsLeap(y) THEN 29 ELSE 28)
  ELSE IF m \in {4, 6, 9, 11} THEN 30
  ELSE 31

RECURSIVE DaysBeforeMonth(_, _)
DaysBeforeMonth(y, m) ==
  IF m <= 1 THEN 0 ELSE DaysBeforeMonth(y, m - 1) + DaysInMonth(y, m - 1)

\* date(y, m, d).toordinal()
Ordinal(y, m, d) ==
  LET p == y - 1
  IN  365 * p + (p \div 4) - (p \div 100) + (p \div 400) + DaysBeforeMonth(y, m) + d

\* date.fromisoformat(s): the date's ordinal, or the exception it raises
fromisoformat(s) ==
  IF /\ Len(s) = 10
     /\ s[5] = "-"
     /\ s[8] = "-"
     /\ AllDigits(SubSeq(s, 1, 4))
     /\ AllDigits(SubSeq(s, 6, 7))
     /\ AllDigits(SubSeq(s, 9, 10))
  THEN LET y == IntOf(SubSeq(s, 1, 4))
           m == IntOf(SubSeq(s, 6, 7))
           d == IntOf(SubSeq(s, 9, 10))
       IN  IF y >= 1 /\ m \in 1..12 /\ d >= 1 /\ d <= DaysInMonth(y, m)
           THEN [exc |-> "", ord |-> Ordinal(y, m, d)]
           ELSE [exc |-> "ValueError", ord |-> 0]
  ELSE [exc |-> "ValueError", ord |-> 0]

(***************************************************************************)
(* Part A.  The PMC downloader: configuration and inputs.                  *)
(***************************************************************************)
\* sorted(journalSearch.keys()) of the run
journals == <<"Bone", "Dis Model Mech">>

\* the journal names as text
JournalText(j) ==
  IF j = "Bone" THEN <<"B","o","n","e">>
  ELSE <<"D","i","s"," ","M","o","d","e","l"," ","M","e","c","h">>

\* args.dateRanges: every journal is given the same 'yyyy/mm/dd:yyyy/mm/dd'
dateRanges ==
  [j \in {"Bone", "Dis Model Mech"} |->
     <<"2","0","2","1","/","0","1","/","0","5",":","2","0","2","1","/","0","1","/","1","0">>]

\* the day the run is made, time.strftime('%Y/%m/%d')
today == <<"2","0","2","1","/","0","2","/","0","1">>

\* PMCfileRangler(writeFiles=(not args.noWrite)), getPdf left at its default
writeFiles == TRUE

getPdf == TRUE

\* args.noPdfFile is always set by the caller
hasNoPdfFile == TRUE

\* PMCfileRangler.articleTypes
articleTypes ==
  [t \in {"research-article", "review-article", "other", "correction",
          "editorial", "article-commentary", "brief-report", "case-report",
          "letter", "discussion", "retraction", "oration", "reply", "news",
          "expression-of-concern", "meeting-report", "methods-article",
          "addendum", "systematic-review"} |->
     t \notin {"editorial", "article-commentary", "meeting-report",
               "methods-article", "addendum", "systematic-review"}]

\* the article-type attributes the searches return: a wanted type, a known
\* unwanted type, and a type that is not in the table
InTypes == {"research-article", "editorial", "hypothesis"}

\* the pmcaid of the k-th article a run's searches return
PmcidOf(k) == <<"7", Digits[k + 1]>>

\* PubMed IDs: those of the first kind are in the database with a PDF
KnownPmid(k) == <<"1", Digits[k + 1]>>

NewPmid(k) == <<"2", Digits[k + 1]>>

\* the text of the pmid article-id of the k-th article: absent, known, new
InPmids(k) == {None, KnownPmid(k), NewPmid(k)}

\* bib_citation_cache rows with a PDF, as PubMedWithPDF.populateCache reads them
DbPubmedWithPDF == {KnownPmid(k) : k \in 0..9}

\* the pub-date element found for an article: none at all, a full date before
\* the start of the window, a full date inside it
InPubDates ==
  { [present |-> FALSE, year |-> None, month |-> None, day |-> None],
    [present |-> TRUE, year |-> <<"2","0","2","1">>, month |-> <<"1">>, day |-> <<"2">>],
    [present |-> TRUE, year |-> <<"2","0","2","1">>, month |-> <<"1">>, day |-> <<"8">>] }

\* the pub-date element of an article that is rejected, whose date is not read
InWindowDate ==
  [present |-> TRUE, year |-> <<"2","0","2","1">>, month |-> <<"1">>, day |-> <<"8">>]

\* the k-th result element of a run: every type with every pmid, and every
\* pub-date for the elements that can get as far as the failure listing
InElements(k) ==
  { [type |-> t, pmid |-> p, pubDate |-> d, pmcid |-> PmcidOf(k)] :
      t \in InTypes, p \in InPmids(k), d \in InPubDates }
  \ { e \in [type : InTypes, pmid : InPmids(k), pubDate : InPubDates, pmcid : {PmcidOf(k)}] :
        /\ ~(e.type = "research-article" /\ e.pmid = NewPmid(k))
        /\ e.pubDate # InWindowDate }

\* the answers of the OA service to getPdfUrl: an error element, a record with
\* a pdf link, a record with a tgz link, a record with neither
OAResponses ==
  { [error |-> TRUE,  formats |-> {}],
    [error |-> FALSE, formats |-> {"pdf"}],
    [error |-> FALSE, formats |-> {"tgz"}],
    [error |-> FALSE, formats |-> {}] }

Href(fmt) == IF fmt = "pdf" THEN "ftp://oa/a.pdf" ELSE "ftp://oa/a.tar.gz"

NoPdfInGzip == "Error: no PDF found in gzip file\n"

\* the lines of stdout in which .find('curl did not complete') succeeds
CurlLines == {"curl did not complete, removing gzip\n"}

\* what the Dispatcher reports for a finished download_pdf.sh job
JobResults ==
  { [retcode |-> 0, stdout |-> <<>>, stderr |-> <<>>],
    [retcode |-> 0, stdout |-> <<"saved\n">>, stderr |-> <<"warning\n">>],
    [retcode |-> 1, stdout |-> <<>>, stderr |-> <<>>],
    [retcode |-> 1, stdout |-> <<NoPdfInGzip>>, stderr |-> <<>>],
    [retcode |-> 1, stdout |-> <<"curl did not complete, removing gzip\n">>,
     stderr |-> <<"curl: (28) timeout\n">>] }

(***************************************************************************)
(* caches.IDCache                                                          *)
(***************************************************************************)
\* a cache that knows no ID
containsNone(cache, accID) == FALSE

\* IDCache.contains
contains(cache, accID) == accID \in cache

(***************************************************************************)
(* PMCsearchReporter                                                       *)
(***************************************************************************)
EmptyDict == [t \in {} |-> <<>>]

\* PMCsearchReporter.__init__
NewReporter(journal, count) ==
  [ journal |-> journal,
    totalSearchCount |-> count,
    nResultsGotPdf |-> 0,
    skippedByType |-> EmptyDict,
    nSkippedByType |-> 0,
    skippedNewType |-> EmptyDict,
    nSkippedNewType |-> 0,
    noPdf |-> <<>>,
    mgiPubmedIds |-> <<>>,
    noPubmedId |-> <<>>,
    earliestNoPubmedIdArticle |-> <<>> ]

\* d[t].append(x), with d[t] = [] first when t is a new key
DictAppend(d, t, x) ==
  IF t \in DOMAIN d
  THEN [d EXCEPT ![t] = Append(@, x)]
  ELSE (t :> <<x>>) @@ d

skipWrongType(rep, article) ==
  [rep EXCEPT !.nSkippedByType = @ + 1,
              !.skippedByType = DictAppend(@, article.type, article.pmcid)]

\* a reporter that files a new type under the unwanted types
skipNewTypeAsWrong(rep, article) ==
  [rep EXCEPT !.nSkippedByType = @ + 1,
              !.skippedByType = DictAppend(@, article.type, article.pmcid)]

skipNewType(rep, article) ==
  [rep EXCEPT !.nSkippedNewType = @ + 1,
              !.skippedNewType = DictAppend(@, article.type, article.pmcid)]

\* earliestNoPubmedIdArticle is <<>> for None and <<article>> otherwise
skipNoPMID(rep, article) ==
  [rep EXCEPT !.noPubmedId = Append(@, article.pmcid),
              !.earliestNoPubmedIdArticle =
                 IF @ = <<>> \/ StrLess(article.date, @[1].date)
                 THEN <<article>> ELSE @]

skipInMgi(rep, article) ==
  [rep EXCEPT !.mgiPubmedIds = Append(@, article.pmid)]

\* a reporter that does not count a PDF
gotPdfLost(rep, article) == rep

gotPdf(rep, article) == [rep EXCEPT !.nResultsGotPdf = @ + 1]

\* a reporter that also counts a PDF for an article it lists as a failure
gotNoPdfCounted(rep, article) ==
  [rep EXCEPT !.noPdf = Append(@, article), !.nResultsGotPdf = @ + 1]

gotNoPdf(rep, article) == [rep EXCEPT !.noPdf = Append(@, article)]

getNumPdfs(rep) == rep.nResultsGotPdf

\* getReport: the counts of the lines of the report, a line that is not
\* printed having no entry
getReport(rep) ==
  LET matched == ("matched" :> rep.totalSearchCount)
      line(name, n) == IF n > 0 THEN (name :> n) ELSE [x \in {} |-> 0]
  IN  IF rep.totalSearchCount = 0 THEN matched
      ELSE matched
           @@ ("written" :> rep.nResultsGotPdf)
           @@ line("skippedByType", rep.nSkippedByType)
           @@ line("skippedNewType", rep.nSkippedNewType)
           @@ line("noPubmedId", Len(rep.noPubmedId))
           @@ line("inMgi", Len(rep.mgiPubmedIds))
           @@ line("noPdf", Len(rep.noPdf))

getArticlesWithNoPdfs(rep) == rep.noPdf

(***************************************************************************)
(* PMCfileRangler: the per-article steps                                   *)
(***************************************************************************)
\* Python's truth value of an optional str
Falsy(s) == s = None \/ s = <<>>

\* art.date as _processResults builds it from the pub-date element
ArticleDate(pubDate) ==
  IF pubDate.present
  THEN LET day   == IF pubDate.day # None THEN rjust(pubDate.day, 2, "0") ELSE <<"-">>
           month == IF pubDate.month # None THEN rjust(pubDate.month, 2, "0") ELSE <<"-">>
           year  == IF pubDate.year # None THEN pubDate.year ELSE <<"-">>
       IN  year \o <<"/">> \o month \o <<"/">> \o day
  ELSE <<"-">>

\* the PMCarticle record _processResults fills from a result element
MakeArticle(journalName, e) ==
  [ journal |-> journalName,
    type |-> e.type,
    date |-> ArticleDate(e.pubDate),
    pmcid |-> e.pmcid,
    pmid |-> e.pmid ]

\* a filter that looks at the article type before the PubMed ID
wantArticleTypeFirst(article, rep, cache) ==
  IF article.type \in DOMAIN articleTypes /\ ~articleTypes[article.type]
  THEN [want |-> FALSE, rep |-> skipWrongType(rep, article), calls |-> <<"skipWrongType">>]
  ELSE IF article.type \notin DOMAIN articleTypes
  THEN [want |-> FALSE, rep |-> skipNewType(rep, article), calls |-> <<"skipNewType">>]
  ELSE IF Falsy(article.pmid)
  THEN [want |-> FALSE, rep |-> skipNoPMID(rep, article), calls |-> <<"skipNoPMID">>]
  ELSE IF contains(cache, article.pmid)
  THEN [want |-> FALSE, rep |-> skipInMgi(rep, article), calls |-> <<"skipInMgi">>]
  ELSE [want |-> TRUE, rep |-> rep, calls |-> <<>>]

\* _wantArticle: the answer, the reporter after it, the reporter calls made
wantArticle(article, rep, cache) ==
  IF Falsy(article.pmid)
  THEN [want |-> FALSE, rep |-> skipNoPMID(rep, article), calls |-> <<"skipNoPMID">>]
  ELSE IF contains(cache, article.pmid)
  THEN [want |-> FALSE, rep |-> skipInMgi(rep, article), calls |-> <<"skipInMgi">>]
  ELSE IF article.type \in DOMAIN articleTypes
  THEN IF ~articleTypes[article.type]
       THEN [want |-> FALSE, rep |-> skipWrongType(rep, article), calls |-> <<"skipWrongType">>]
       ELSE [want |-> TRUE, rep |-> rep, calls |-> <<>>]
  ELSE [want |-> FALSE, rep |-> skipNewType(rep, article), calls |-> <<"skipNewType">>]

\* getPdfUrl: the URL ('' when there is none), or the exception it raises
getPdfUrl(resp) ==
  IF resp.error THEN [exc |-> "", url |-> ""]
  ELSE IF "pdf" \in resp.formats THEN [exc |-> "", url |-> Href("pdf")]
  ELSE IF "tgz" \in resp.formats THEN [exc |-> "", url |-> Href("tgz")]
  ELSE [exc |-> "AttributeError", url |-> ""]

getPdfCmd(linkUrl, outputDir, fileName) ==
  <<"./download_pdf.sh", linkUrl, outputDir, fileName>>

\* checkPdfCmd: True/False, or the exception it raises
checkPdfCmd(cmd, retcode, stdout, stderr) ==
  IF retcode # 0
  THEN IF Len(stdout) = 0
       THEN [exc |-> "IndexError", ok |-> FALSE]
       ELSE [exc |-> "", ok |-> FALSE]
  ELSE [exc |-> "", ok |-> TRUE]

(***************************************************************************)
(* NoPdfWriter: the listing of the articles whose PDF did not download.    *)
(* A file is [exists, lines]: the lines as readlines() returns them.       *)
(***************************************************************************)
DMMjournal == "Dis Model Mech"

hasDMMjournal == DMMjournal \in DOMAIN dateRanges

RECURSIVE SpanDigits(_, _)
\* the length of the run of digits of s that starts at i
SpanDigits(s, i) ==
  IF i > Len(s) \/ ~IsDigit(s[i]) THEN 0 ELSE 1 + SpanDigits(s, i + 1)

RECURSIVE SpanSpace(_, _)
\* the length of the run of white space of s that starts at i
SpanSpace(s, i) ==
  IF i > Len(s) \/ ~IsSpace(s[i]) THEN 0 ELSE 1 + SpanSpace(s, i + 1)

\* \d{4}[/]\d{2}[/]\d{2} at i
IsDateAt(s, i) ==
  /\ i + 9 <= Len(s)
  /\ \A k \in {0, 1, 2, 3, 5, 6, 8, 9} : IsDigit(s[i + k])
  /\ s[i + 4] = "/"
  /\ s[i + 7] = "/"

\* the position after \d+ at i; 0 when there is no match (or none before: i = 0)
AfterDigits(s, i) ==
  IF i = 0 \/ SpanDigits(s, i) = 0 THEN 0 ELSE i + SpanDigits(s, i)

\* the position after \s+ at i, or 0
AfterSpace(s, i) ==
  IF i = 0 \/ SpanSpace(s, i) = 0 THEN 0 ELSE i + SpanSpace(s, i)

\* the position after (?:\d+|-) at i, or 0
AfterPmid(s, i) ==
  IF i = 0 THEN 0
  ELSE IF i <= Len(s) /\ s[i] = "-" THEN i + 1
  ELSE AfterDigits(s, i)

\* the position after (?:\d{4}[/]\d{2}[/]\d{2}|-) at i, or 0
AfterDate(s, i) ==
  IF i = 0 THEN 0
  ELSE IF IsDateAt(s, i) THEN i + 10
  ELSE IF i <= Len(s) /\ s[i] = "-" THEN i + 1
  ELSE 0

\* \s+.+\Z at i: white space, then at least one character, none a newline
IsTailAt(s, i) ==
  /\ i # 0
  /\ \E j \in i..(Len(s) - 1) :
       /\ \A k \in i..j : IsSpace(s[k])
       /\ \A k \in (j + 1)..Len(s) : s[k] # "\n"

\* the match object: group 1 is s[i0..i1), group 2 is s[i8..i9)
reGroups(s, i0, i1, i8, i9) ==
  IF IsTailAt(s, i9)
  THEN [ok |-> TRUE, pmcid |-> SubSeq(s, i0, i1 - 1), tries |-> SubSeq(s, i8, i9 - 1)]
  ELSE [ok |-> FALSE, pmcid |-> <<>>, tries |-> <<>>]

\* (\d+) download_tries at i8, and the rest
reTries(s, i0, i1, i8) == reGroups(s, i0, i1, i8, AfterDigits(s, i8))

\* \s+ (?:\d+|-) \s+ (?:date|-) \s+ \d+ \s+ after the PMCID, and the rest
reColumns(s, i0, i1) ==
  reTries(s, i0, i1,
          AfterSpace(s, AfterDigits(s, AfterSpace(s, AfterDate(s,
            AfterSpace(s, AfterPmid(s, AfterSpace(s, i1))))))))

\* (\d+) PMCID at i0, and the rest
rePmcid(s, i0) == reColumns(s, i0, AfterDigits(s, i0))

\* articleLineRe.match(s): whether it matches, and groups 1 and 2
articleLineRe(s) == rePmcid(s, 1 + SpanSpace(s, 1))

\* prevFailures after a line that matched (m.ok) or did not
WithFailure(acc, m) ==
  IF m.ok THEN (m.pmcid :> IntOf(m.tries)) @@ acc ELSE acc

RECURSIVE PrevFailuresOf(_, _, _)
\* the loop of _getPrevFailures from the i-th line on, prevFailures being acc;
\* line[:-1] is matched, and a later line for a pmcid replaces an earlier one
PrevFailuresOf(lines, i, acc) ==
  IF i > Len(lines) THEN acc
  ELSE PrevFailuresOf(lines, i + 1,
         WithFailure(acc, articleLineRe(SubSeq(lines[i], 1, Len(lines[i]) - 1))))

\* _getPrevFailures: {pmcid: download_tries} of the previous listing, empty
\* when the file cannot be opened
getPrevFailures(file) ==
  IF ~file.exists THEN [p \in {} |-> 0]
  ELSE PrevFailuresOf(file.lines, 1, [p \in {} |-> 0])

RECURSIVE ReplaceColon(_)
\* s.replace(':', ' to ')
ReplaceColon(s) ==
  IF Len(s) = 0 THEN <<>>
  ELSE (IF s[1] = ":" THEN <<" ","t","o"," ">> ELSE <<s[1]>>) \o ReplaceColon(Tail(s))

\* _formatJournalSummary, as lines; the journals all have the same date range
\* and are listed in the order of their names
formatJournalSummary ==
  <<<<"S","u","m","m","a","r","y"," ","o","f"," ","s","e","a","r","c","h","e","s"," ","b",
      "y"," ","t","h","e"," ","p","d","f","d","o","w","n","l","o","a","d"," ","p","r","o",
      "d","u","c","t"," ","a","s"," ","o","f",":"," ">>
      \o today \o <<"."," ","S","e","a","r","c","h","i","n","g",":","\n">>>>
  \o [i \in 1..Len(journals) |->
        <<" "," ">> \o ReplaceColon(dateRanges[journals[i]]) \o <<" "," "," ">>
        \o JournalText(journals[i]) \o <<"\n">>]
  \o << <<"\n">> >>

\* _formatInstructions, as lines
formatInstructions ==
  LET DMMtext == IF hasDMMjournal THEN JournalText(DMMjournal) \o <<" ","o","r"," ">>
                 ELSE <<>>
  IN
  << <<"I","n","s","t","r","u","c","t","i","o","n","s"," ","f","o","r"," ","P","D","F","s",
      " ","t","h","a","t"," ","n","e","e","d"," ","m","a","n","u","a","l"," ","d","o","w",
      "n","l","o","a","d",":","\n">>,
     <<"1","."," ","P","r","i","o","r","i","t","y"," ","P","D","F","s",":"," ">> \o DMMtext \o
     <<"t","h","o","s","e"," ","w","i","t","h"," ","l","e","s","s"," ","t","h","a","n"," ",
      "2"," ","W","e","e","k","s","_","L","e","f","t"," ","o","r"," ","m","o","r","e"," ",
      "t","h","a","n"," ","1"," ","D","o","w","n","l","o","a","d","_","T","r","i","e","s",
      "\n">>,
     <<"2","."," ","G","o"," ","t","o"," ","P","u","b","m","e","d"," ","C","e","n","t","r",
      "a","l"," ","(","P","M","C",")"," ","a","t"," ","h","t","t","p","s",":","/","/","w",
      "w","w",".","n","c","b","i",".","n","l","m",".","n","i","h",".","g","o","v","/","p",
      "m","c","/","\n">>,
     <<"3","."," ","S","e","a","r","c","h"," ","b","y"," ","t","h","e"," ","P","M","C"," ",
      "I","D"," ","f","r","o","m"," ","t","h","e"," ","r","e","p","o","r","t","\n">>,
     <<"4","."," ","U","s","e"," ","t","h","e"," ","D","O","I"," ","I","D"," ","a","t"," ",
      "t","h","e"," ","t","o","p"," ","o","f"," ","t","h","e"," ","P","M","C"," ","r","e",
      "c","o","r","d"," ","t","o"," ","g","o"," ","t","o"," ","t","h","e"," ","j","o","u",
      "r","n","a","l"," ","s","i","t","e",".","\n">>,
     <<"5","."," ","D","o","w","n","l","o","a","d"," ","t","h","e"," ","P","D","F"," ","(",
      "i","f"," ","i","t"," ","i","s"," ","a","n"," ","o","p","t","i","o","n"," ","d","o",
      " ","n","o","t"," ","c","h","o","o","s","e"," ","t","h","e"," ","P","D","F"," ","+",
      " ","S","I",")",".","\n">>,
     <<"6","."," ","P","u","t"," ","i","n"," ","t","h","e"," ","n","e","b"," ","f","o","l",
      "d","e","r"," ","o","n"," ","N","e","w","N","e","w","c","u","r","r","e","n","t",".",
      "\n">>,
     <<"\n">> >>

\* the articles of the reporters from the r-th on, each with its journal's
\* start date: the order in which _collectArticles visits them
RECURSIVE NoPdfArticles(_, _)
NoPdfArticles(reps, r) ==
  IF r > Len(reps) THEN <<>>
  ELSE getArticlesWithNoPdfs(reps[r]) \o NoPdfArticles(reps, r + 1)

\* the body of the loop of _collectArticles for one article: the article with
\* its defaults filled in and numWeeks added, or the exception raised
collectArticle(article, startOrd) ==
  LET a1 == [article EXCEPT !.pmcid = IF Falsy(@) THEN <<"-">> ELSE @,
                            !.pmid = IF Falsy(@) THEN <<"-">> ELSE @]
  IN  IF Falsy(a1.date)
      THEN [exc |-> "",
            art |-> [journal |-> a1.journal, type |-> a1.type, date |-> <<"-">>,
                     pmcid |-> a1.pmcid, pmid |-> a1.pmid, numWeeks |-> 0]]
      ELSE LET dateObj == fromisoformat(Replace(a1.date, "/", "-"))
           IN  [exc |-> dateObj.exc,
                art |-> [journal |-> a1.journal, type |-> a1.type, date |-> a1.date,
                         pmcid |-> a1.pmcid, pmid |-> a1.pmid,
                         numWeeks |-> (dateObj.ord - startOrd) \div 7]]

\* date.fromisoformat of the start of the journal's date range
startDateOf(journal) ==
  fromisoformat(Replace(SplitHead(dateRanges[journal], ":"), "/", "-"))

\* _collectArticles: the two lists and numArticles, or the exception raised
collectArticles(reps) ==
  LET arts == NoPdfArticles(reps, 1)
      got == [i \in 1..Len(arts) |->
                collectArticle(arts[i], startDateOf(arts[i].journal).ord)]
      bad == \/ \E r \in 1..Len(reps) : startDateOf(reps[r].journal).exc # ""
             \/ \E i \in 1..Len(arts) : got[i].exc # ""
      done == [i \in 1..Len(arts) |-> got[i].art]
  IN  IF bad
      THEN [exc |-> "ValueError", dmm |-> <<>>, other |-> <<>>, numArticles |-> 0]
      ELSE [exc |-> "",
            dmm |-> SelectSeq(done, LAMBDA a : a.journal = DMMjournal),
            other |-> SelectSeq(done, LAMBDA a : a.journal # DMMjournal),
            numArticles |-> Len(done)]

Max(a, b) == IF a >= b THEN a ELSE b

RECURSIVE MaxLenOf(_, _, _)
\* the loop of _computeArticleTableTemplate that widens a column
MaxLenOf(arts, field, start) ==
  IF Len(arts) = 0 THEN start
  ELSE LET v == IF field = "pmid" THEN arts[1].pmid ELSE arts[1].pmcid
       IN  MaxLenOf(Tail(arts), field, IF Falsy(v) THEN start ELSE Max(start, Len(v)))

pmTitle == <<"P","u","b","M","e","d"," ","I","D">>

pmcTitle == <<"P","M","C"," ","I","D">>

dateTitle == <<"P","u","b"," ","D","a","t","e">>

weeksTitle == <<"W","e","e","k","s","_","L","e","f","t">>

failuresTitle == <<"D","o","w","n","l","o","a","d","_","T","r","i","e","s">>

journalTitle == <<"J","o","u","r","n","a","l">>

\* _computeArticleTableTemplate: the widths of the five padded columns
computeArticleTableTemplate(reps) ==
  LET arts == NoPdfArticles(reps, 1)
  IN  [ maxPmcLength |-> MaxLenOf(arts, "pmcid", Len(pmcTitle)),
        maxPmLength |-> MaxLenOf(arts, "pmid", Len(pmTitle)),
        dateLength |-> Len(<<"2","0","1","8","/","1","1","/","1","7">>),
        weeksLength |-> Len(weeksTitle),
        failuresLength |-> Len(failuresTitle) ]

\* self.template % (a, b, c, d, e, f)
template(w, a, b, c, d, e, f) ==
  ljust(a, w.maxPmcLength) \o <<" ">> \o ljust(b, w.maxPmLength) \o <<" ">>
  \o rjust(c, w.dateLength, " ") \o <<" ">> \o rjust(d, w.weeksLength, " ") \o <<" ">>
  \o rjust(e, w.failuresLength, " ") \o <<" ">> \o f \o <<"\n">>

hdrLine(w) ==
  template(w, pmcTitle, pmTitle, dateTitle, weeksTitle, failuresTitle, journalTitle)

dashLine(w) ==
  template(w, Fill("-", w.maxPmcLength), Fill("-", w.maxPmLength),
           Fill("-", w.dateLength), Fill("-", w.weeksLength),
           Fill("-", w.failuresLength), Fill("-", 15))

\* the journals in the order of their names
JournalIndex(j) == CHOOSE i \in 1..Len(journals) : journals[i] = j

\* the sort key (numWeeks, journal) of _formatArticleTable
KeyLess(a, b) ==
  \/ a.numWeeks < b.numWeeks
  \/ a.numWeeks = b.numWeeks /\ JournalIndex(a.journal) < JournalIndex(b.journal)

RECURSIVE InsertSorted(_, _)
InsertSorted(sorted, a) ==
  IF Len(sorted) = 0 THEN <<a>>
  ELSE IF KeyLess(a, sorted[Len(sorted)])
       THEN Append(InsertSorted(SubSeq(sorted, 1, Len(sorted) - 1), a), sorted[Len(sorted)])
       ELSE Append(sorted, a)

RECURSIVE SortedArticles(_)
\* sorted(articles, key=weeksAndJournal), a stable sort
SortedArticles(arts) ==
  IF Len(arts) = 0 THEN <<>>
  ELSE InsertSorted(SortedArticles(SubSeq(arts, 1, Len(arts) - 1)), arts[Len(arts)])

\* prevFailures.get(pmcid, 0) + 1
triesCountOf(prevFailures, pmcid) ==
  (IF pmcid \in DOMAIN prevFailures THEN prevFailures[pmcid] ELSE 0) + 1

\* the line of _formatArticleTable for one article
articleLine(w, prevFailures, article) ==
  LET triesCount == triesCountOf(prevFailures, article.pmcid)
      tries == center(Str(triesCount), w.failuresLength)
      weeks == center(Str(article.numWeeks), w.weeksLength)
  IN  template(w, article.pmcid, article.pmid, article.date, weeks, tries,
               JournalText(article.journal))

\* _formatArticleTable, as lines
formatArticleTable(w, prevFailures, articles, label) ==
  << label \o <<" ","t","h","a","t"," ","n","e","e","d"," ","m","a","n","u","a","l"," ","d","o","w",
      "n","l","o","a","d"," ","(">>
     \o Str(Len(articles)) \o <<" ","t","o","t","a","l",")","\n">> >>
  \o (IF Len(articles) > 0
      THEN <<hdrLine(w), dashLine(w)>>
           \o [i \in 1..Len(articles) |->
                 articleLine(w, prevFailures, SortedArticles(articles)[i])]
      ELSE <<>>)
  \o << <<"\n">> >>

\* the tables write() puts after the instructions
articleTables(w, prevFailures, c) ==
  IF hasDMMjournal
  THEN formatArticleTable(w, prevFailures, c.dmm,
                          JournalText(DMMjournal) \o <<" ","P","D","F","s">>)
       \o formatArticleTable(w, prevFailures, c.other,
            <<"O","t","h","e","r"," ","j","o","u","r","n","a","l"," ","P","D","F","s">>)
  ELSE formatArticleTable(w, prevFailures, c.other,
            <<"A","r","t","i","c","l","e"," ","P","D","F","s">>)

\* the Download_Tries that _formatArticleTable formats for each pmcid listed
triesWritten(prevFailures, all) ==
  [p \in {all[i].pmcid : i \in 1..Len(all)} |-> triesCountOf(prevFailures, p)]

\* write() once prevFailures, the template, the lines before the tables and
\* the collected articles are known
writeTables(prevFailures, w, head, c) ==
  IF c.exc # ""
  THEN [exc |-> c.exc, file |-> [exists |-> TRUE, lines |-> head], numArticles |-> 0,
        tries |-> [p \in {} |-> 0]]
  ELSE [exc |-> "",
        file |-> [exists |-> TRUE, lines |-> head \o articleTables(w, prevFailures, c)],
        numArticles |-> c.numArticles,
        tries |-> triesWritten(prevFailures, c.dmm \o c.other)]

\* NoPdfWriter(filePath, reporters, dateRanges).write(): the file afterwards,
\* the exception raised if any, numArticles, and the Download_Tries written.
\* open(filePath, 'w') empties the file first; what was written before an
\* exception is still flushed.
write(file, reps) ==
  writeTables(getPrevFailures(file), computeArticleTableTemplate(reps),
              formatJournalSummary \o formatInstructions, collectArticles(reps))

(***************************************************************************)
(* The state of a run of download_pmc_papers.py / backPopulate.process.    *)
(***************************************************************************)
VARIABLES
  run,            \* the number of the run being made
  pc,             \* where the run is: search, process, wait, check, report,
                  \*   write, done, crashed
  exc,            \* the exception that ended the run, "" if none
  jidx,           \* index in journals of the journal being harvested
  todo,           \* result elements of the journal still to be looked at
  fetched,        \* result elements returned by all searches so far
  kidx,           \* result elements looked at in this run
  art,            \* the result element looked at last: its fields, and the
                  \*   answer of the OA service when getPdfUrl was called
  seen,           \* how many result elements of the journal had no pmid, a
                  \*   pmid in MGI, an unwanted type, a new type, none of these
  lastJob,        \* the result of the job that _runPdfQueue read last
  jobsOk,         \* jobs of the journal read so far that ended with code 0
  pubmedWithPDF,  \* self.pubmedWithPDF.cache
  reporters,      \* self.reporters; the last one is self.curReporter
  dispatcher,     \* self.dispatcher: [jobs, waited]
  cmdIndexes,     \* self.cmdIndexes
  cmds,           \* self.cmds
  articles,       \* self.articles
  ci,             \* the loop index of _runPdfQueue
  log,            \* the reporter and dispatcher calls made for the journal
  summary,        \* what process() prints: the reports and the PDF total
  noPdfFile,      \* the failure listing at args.noPdfFile
  listing,        \* the Download_Tries in noPdfFile, by pmcid, as written
  prevListing     \* listing as it was when the last write() started

varsPMC ==
  << run, pc, exc, jidx, todo, fetched, kidx, art, seen, lastJob, jobsOk,
     pubmedWithPDF, reporters, dispatcher, cmdIndexes, cmds, articles, ci, log,
     summary, noPdfFile, listing, prevListing >>

(***************************************************************************)
(* The state of a call of the Elsevier downloadPapers.                     *)
(***************************************************************************)
VARIABLES
  prog,               \* the downloader that runs: "pmc" or "elsevier"
  epc,                \* where downloadPapers is: dates, examine, done, crashed
  results,            \* results.getIterator(), in order
  ei,                 \* index of the result the current loop looks at
  pmidCache,          \* pmidCache.contents
  pubDateCache,       \* pubDateCache.contents
  pubTypeCache,       \* pubTypeCache.contents
  publicationDates,   \* PM ID -> publication date
  missed,
  totalCount,
  wrongJournalCount,
  wrongJournals,
  inMGI,
  refTypes,
  numPMIDs,
  numPDFs,
  beyondStop,
  noIDs,
  noPdfs,
  downloaded,
  pdfFiles,           \* the files PMID_<pmid>.pdf in PDF_OUTPUT_DIR: pmid -> content
  firstPmids,         \* the pmid the first loop had for each result, in order
  examined,           \* what the second loop did with each result, in order
  lookups             \* how each loop turn came by the pmid of its result, in order

varsEls ==
  << prog, epc, results, ei, pmidCache, pubDateCache, pubTypeCache, publicationDates,
     missed, totalCount, wrongJournalCount, wrongJournals, inMGI, refTypes, numPMIDs,
     numPDFs, beyondStop, noIDs, noPdfs, downloaded, pdfFiles, firstPmids, examined,
     lookups >>

(***************************************************************************)
(* The state of the parts that are checked on their own: the start of a    *)
(* downloader script.                                                      *)
(***************************************************************************)
VARIABLES
  startup,            \* the start of a script: [script, environ, step, effects, aborted]
  dates,              \* a PubMed date, its standard form and a window test
  xml,                \* a document and the state of fromstring reading it
  mapc,               \* a MapCache, its backing file and the calls made on it
  sd,                 \* an ElsClient, its requests, and a SciDirectSearch
  em                  \* the main program of the Elsevier downloader and its caches

varsUnits == << startup, dates, xml, mapc, sd, em >>

NoTries == [p \in {} |-> 0]

NoSummary == [printed |-> FALSE, reports |-> <<>>, numPdfs |-> 0]

\* Dispatcher.Dispatcher(maxProcesses=5)
NewDispatcher == [jobs |-> <<>>, waited |-> FALSE]

NoArt == [type |-> "", pmid |-> None, pmcid |-> None, oa |-> [error |-> FALSE, formats |-> {}],
          pubDate |-> [present |-> FALSE, year |-> None, month |-> None, day |-> None]]

NoJob == [retcode |-> 0, stdout |-> <<>>, stderr |-> <<>>]

NoneSeen == [noId |-> 0, known |-> 0, unwanted |-> 0, newType |-> 0, candidate |-> 0]

\* the class of a result element, by its fields alone
ClassOf(e) ==
  IF e.pmid = None THEN "noId"
  ELSE IF e.pmid \in DbPubmedWithPDF THEN "known"
  ELSE IF e.type \notin DOMAIN articleTypes THEN "newType"
  ELSE IF ~articleTypes[e.type] THEN "unwanted"
  ELSE "candidate"

\* the OA answer recorded for an article for which getPdfUrl is not called
NoResponse == [error |-> FALSE, formats |-> {"none"}]

\* the state in which process() starts: PMCfileRangler.__init__
StartRun ==
  /\ pc = "search"
  /\ exc = ""
  /\ jidx = 1
  /\ todo = 0
  /\ kidx = 0
  /\ art = NoArt
  /\ seen = NoneSeen
  /\ lastJob = NoJob
  /\ jobsOk = 0
  /\ pubmedWithPDF = DbPubmedWithPDF
  /\ reporters = <<>>
  /\ dispatcher = NewDispatcher
  /\ cmdIndexes = <<>>
  /\ cmds = <<>>
  /\ articles = <<>>
  /\ ci = 0
  /\ log = <<>>
  /\ summary = NoSummary

InitPMC ==
  /\ run = 1
  /\ fetched = 0
  /\ noPdfFile = [exists |-> FALSE, lines |-> <<>>]
  /\ listing = NoTries
  /\ prevListing = NoTries
  /\ StartRun

curReporter == reporters[Len(reporters)]

SetCurReporter(reps, rep) == [reps EXCEPT ![Len(reps)] = rep]

Event(op, id) == [op |-> op, id |-> id]

\* the run ends with an uncaught exception
Crash(e) == /\ pc' = "crashed" /\ exc' = e

\* downloadFiles after _processResults returns: the next journal, or back in
\* process() when there is none
AfterJournal ==
  /\ pc' = IF jidx < Len(journals) THEN "search" ELSE "report"
  /\ jidx' = IF jidx < Len(journals) THEN jidx + 1 ELSE jidx

(***************************************************************************)
(* downloadFiles: _runSearch for the journal, a new reporter, and the      *)
(* start of _processResults.  The search fails inside eulib (count 0 and   *)
(* an empty document are substituted), returns a document that does not    *)
(* parse, or returns n article elements with count n.                      *)
(***************************************************************************)
SearchOutcomes ==
  {[kind |-> "exception", n |-> 0], [kind |-> "malformed", n |-> 0]}
  \cup {[kind |-> "ok", n |-> k] : k \in 0..(MaxResults - fetched)}

\* _runSearch: count, the number of article elements, or the exception raised
runSearch(outcome) ==
  IF outcome.kind = "exception" THEN [exc |-> "", count |-> 0, n |-> 0]
  ELSE IF outcome.kind = "malformed" THEN [exc |-> "ParseError", count |-> 0, n |-> 0]
  ELSE [exc |-> "", count |-> outcome.n, n |-> outcome.n]

Search ==
  /\ prog = "pmc"
  /\ pc = "search"
  /\ \E outcome \in SearchOutcomes :
       LET r == runSearch(outcome)
       IN  IF r.exc # ""
           THEN /\ Crash(r.exc)
                /\ UNCHANGED << run, jidx, todo, fetched, kidx, art, seen, lastJob,
                                jobsOk, pubmedWithPDF, reporters, dispatcher, cmdIndexes,
                                cmds, articles, ci, log, summary, noPdfFile, listing,
                                prevListing >>
           ELSE /\ reporters' = Append(reporters, NewReporter(journals[jidx], r.count))
                /\ dispatcher' = NewDispatcher
                /\ cmdIndexes' = <<>>
                /\ cmds' = <<>>
                /\ articles' = <<>>
                /\ art' = NoArt
                /\ seen' = NoneSeen
                /\ lastJob' = NoJob
                /\ jobsOk' = 0
                /\ log' = <<>>
                /\ ci' = 0
                /\ todo' = r.n
                /\ fetched' = fetched + r.n
                /\ pc' = IF r.n > 0 THEN "process" ELSE "wait"
                /\ UNCHANGED << run, exc, jidx, kidx, pubmedWithPDF, summary, noPdfFile,
                                listing, prevListing >>
  /\ UNCHANGED << varsEls, varsUnits >>

\* a scheduler that records the download as done when it schedules the job
queuePdfFileEager(article, resp, q0) ==
  [q0 EXCEPT !.rep = gotPdf(@, article),
             !.dispatcher.jobs = Append(@, <<"./download_pdf.sh">>),
             !.cmdIndexes = Append(@, Len(q0.dispatcher.jobs) + 1),
             !.cmds = Append(@, <<"./download_pdf.sh">>),
             !.articles = Append(@, article),
             !.log = @ \o <<[op |-> "schedule", id |-> article.pmcid],
                            [op |-> "gotPdf", id |-> article.pmcid]>>]

(***************************************************************************)
(* _queuePdfFile on the state q = [rep, dispatcher, cmdIndexes, cmds,      *)
(* articles, log]: the state afterwards and the exception raised, if any.  *)
(***************************************************************************)
queuePdfFile(article, resp, q0) ==
  LET u == getPdfUrl(resp)
      pdfFilename == IF ~Falsy(article.pmid)
                     THEN <<"P","M","I","D","_">> \o article.pmid \o <<".","p","d","f">>
                     ELSE <<"P","M","C">> \o article.pmcid \o <<".","p","d","f">>
      cmd == getPdfCmd(u.url, "PDFDIR", pdfFilename)
      idx == Len(q0.dispatcher.jobs) + 1
      q == [q0 EXCEPT !.log = Append(@, Event("getPdfUrl", article.pmcid))]
  IN  IF u.exc # "" THEN [q EXCEPT !.exc = u.exc]
      ELSE IF u.url = ""
      THEN [q EXCEPT !.rep = gotNoPdf(@, article),
                     !.log = Append(@, Event("gotNoPdf", article.pmcid))]
      ELSE IF ~writeFiles THEN q
      ELSE [q EXCEPT !.dispatcher.jobs = Append(@, cmd),
                     !.cmdIndexes = Append(@, idx),
                     !.cmds = Append(@, cmd),
                     !.articles = Append(@, article),
                     !.log = Append(@, Event("schedule", article.pmcid))]

RECURSIVE EventsOf(_, _)
EventsOf(ops, id) ==
  IF Len(ops) = 0 THEN <<>> ELSE <<Event(ops[1], id)>> \o EventsOf(Tail(ops), id)

(***************************************************************************)
(* One turn of the loop of _processResults: the fields of the next result  *)
(* element, _wantArticle, and _queuePdfFile for a wanted article.          *)
(***************************************************************************)
ProcessArticle ==
  /\ prog = "pmc"
  /\ pc = "process"
  /\ todo > 0
  /\ \E e \in InElements(kidx + 1) :
     \E article \in {MakeArticle(journals[jidx], e)} :
     \E w \in {wantArticle(article, curReporter, pubmedWithPDF)} :
     \E resp \in (IF w.want /\ getPdf THEN OAResponses ELSE {NoResponse}) :
     \E q0 \in {[rep |-> w.rep, dispatcher |-> dispatcher, cmdIndexes |-> cmdIndexes,
                 cmds |-> cmds, articles |-> articles,
                 log |-> log \o EventsOf(w.calls, article.pmcid), exc |-> ""]} :
     \E q \in {IF w.want /\ getPdf THEN queuePdfFile(article, resp, q0) ELSE q0} :
       /\ art' = e @@ [oa |-> resp]
       /\ seen' = [seen EXCEPT ![ClassOf(e)] = @ + 1]
       /\ kidx' = kidx + 1
       /\ todo' = todo - 1
       /\ reporters' = SetCurReporter(reporters, q.rep)
       /\ dispatcher' = q.dispatcher
       /\ cmdIndexes' = q.cmdIndexes
       /\ cmds' = q.cmds
       /\ articles' = q.articles
       /\ log' = q.log
       /\ IF q.exc # "" THEN Crash(q.exc)
          ELSE /\ pc' = IF todo = 1 THEN "wait" ELSE "process"
               /\ exc' = exc
       /\ UNCHANGED << run, jidx, fetched, lastJob, jobsOk, pubmedWithPDF, ci,
                       summary, noPdfFile, listing, prevListing >>
  /\ UNCHANGED << varsEls, varsUnits >>

(***************************************************************************)
(* _runPdfQueue: dispatcher.wait() returns when every scheduled job has    *)
(* ended.  What a job ended with is drawn when _runPdfQueue reads it.      *)
(***************************************************************************)
Wait ==
  /\ prog = "pmc"
  /\ pc = "wait"
  /\ dispatcher' = [dispatcher EXCEPT !.waited = TRUE]
  /\ log' = Append(log, Event("wait", None))
  /\ ci' = 1
  /\ IF Len(cmds) > 0
     THEN /\ pc' = "check" /\ jidx' = jidx
     ELSE AfterJournal
  /\ UNCHANGED << run, exc, todo, fetched, kidx, art, seen, lastJob, jobsOk,
                  pubmedWithPDF, reporters, cmdIndexes, cmds, articles, summary,
                  noPdfFile, listing, prevListing >>
  /\ UNCHANGED << varsEls, varsUnits >>

(***************************************************************************)
(* One turn of the loop of _runPdfQueue: the job's result is read and      *)
(* checkPdfCmd decides between gotPdf and gotNoPdf.                        *)
(***************************************************************************)
CheckJob ==
  /\ prog = "pmc"
  /\ pc = "check"
  /\ ci <= Len(cmds)
  /\ \E job \in JobResults :
       LET article == articles[ci]
           r == checkPdfCmd(cmds[ci], job.retcode, job.stdout, job.stderr)
           read == EventsOf(<<"getReturnCode", "getStdout", "getStderr">>, article.pmcid)
       IN  /\ lastJob' = job
           /\ jobsOk' = IF job.retcode = 0 THEN jobsOk + 1 ELSE jobsOk
           /\ IF r.exc # ""
              THEN /\ Crash(r.exc)
                   /\ log' = log \o read
                   /\ UNCHANGED << reporters, ci, jidx >>
              ELSE /\ reporters' = SetCurReporter(reporters,
                                     IF r.ok THEN gotPdf(curReporter, article)
                                     ELSE gotNoPdf(curReporter, article))
                   /\ log' = log \o read
                          \o <<Event(IF r.ok THEN "gotPdf" ELSE "gotNoPdf", article.pmcid)>>
                   /\ ci' = ci + 1
                   /\ exc' = exc
                   /\ IF ci = Len(cmds) THEN AfterJournal
                      ELSE /\ pc' = "check" /\ jidx' = jidx
  /\ UNCHANGED << run, todo, fetched, kidx, art, seen, pubmedWithPDF, dispatcher,
                  cmdIndexes, cmds, articles, summary, noPdfFile, listing, prevListing >>
  /\ UNCHANGED << varsEls, varsUnits >>

RECURSIVE SumPdfs(_, _)
SumPdfs(reps, r) ==
  IF r > Len(reps) THEN 0 ELSE getNumPdfs(reps[r]) + SumPdfs(reps, r + 1)

(***************************************************************************)
(* process() after downloadFiles: the summary of the articles by journal,  *)
(* then NoPdfWriter(args.noPdfFile, reporters, dateRanges).write().        *)
(***************************************************************************)
Report ==
  /\ prog = "pmc"
  /\ pc = "report"
  /\ summary' = [printed |-> TRUE,
                 reports |-> [r \in 1..Len(reporters) |-> getReport(reporters[r])],
                 numPdfs |-> SumPdfs(reporters, 1)]
  /\ art' = NoArt
  /\ lastJob' = NoJob
  /\ IF hasNoPdfFile
     THEN \E r \in {write(noPdfFile, reporters)} :
            /\ noPdfFile' = r.file
            /\ prevListing' = listing
            /\ listing' = r.tries
            /\ IF r.exc # "" THEN Crash(r.exc)
               ELSE /\ pc' = "done" /\ exc' = exc
     ELSE /\ pc' = "done"
          /\ UNCHANGED << exc, noPdfFile, listing, prevListing >>
  /\ UNCHANGED << run, jidx, todo, fetched, kidx, seen, jobsOk, pubmedWithPDF,
                  reporters, dispatcher, cmdIndexes, cmds, articles, ci, log >>
  /\ UNCHANGED << varsEls, varsUnits >>

(***************************************************************************)
(* The downloader is run again (the next day), over the same listing.      *)
(***************************************************************************)
NewRun ==
  /\ prog = "pmc"
  /\ pc \in {"done", "crashed"}
  /\ run < MaxRuns
  /\ run' = run + 1
  /\ pc' = "search"
  /\ exc' = ""
  /\ jidx' = 1
  /\ todo' = 0
  /\ kidx' = 0
  /\ art' = NoArt
  /\ seen' = NoneSeen
  /\ lastJob' = NoJob
  /\ jobsOk' = 0
  /\ pubmedWithPDF' = DbPubmedWithPDF
  /\ reporters' = <<>>
  /\ dispatcher' = NewDispatcher
  /\ cmdIndexes' = <<>>
  /\ cmds' = <<>>
  /\ articles' = <<>>
  /\ ci' = 0
  /\ log' = <<>>
  /\ summary' = NoSummary
  /\ prevListing' = NoTries
  /\ UNCHANGED << fetched, noPdfFile, listing >>
  /\ UNCHANGED << varsEls, varsUnits >>

NextPMC ==
  \/ Search
  \/ ProcessArticle
  \/ Wait
  \/ CheckJob
  \/ Report
  \/ NewRun

(***************************************************************************)
(* Part B.  The Elsevier downloader: one call of                           *)
(* downloadPapers(journal, results, startDate, stopDate).                  *)
(***************************************************************************)
\* r.get('pubmed-id', 'no PMID')
NoPMID == <<"n","o"," ","P","M","I","D">>

\* journal.elsevierName of the journal searched
longName == "Bone"

\* a journal whose name contains the searched name as a word
OtherJournal == "Bone Reports"

\* startDate and stopDate as parseParameters formats them ('%Y-%m-%d')
startDate == <<"2","0","2","1","-","0","1","-","0","5">>

stopDate == <<"2","0","2","4","-","0","1","-","0","4">>

Upper ==
  {"A","B","C","D","E","F","G","H","I","J","K","L","M","N","O","P","Q","R","S","T",
   "U","V","W","X","Y","Z"}

Lower ==
  {"a","b","c","d","e","f","g","h","i","j","k","l","m","n","o","p","q","r","s","t",
   "u","v","w","x","y","z"}

monthMap ==
  (<<"J","a","n">> :> << <<"0","1">>, <<"3","1">> >>) @@
  (<<"F","e","b">> :> << <<"0","2">>, <<"2","8">> >>) @@
  (<<"M","a","r">> :> << <<"0","3">>, <<"3","1">> >>) @@
  (<<"A","p","r">> :> << <<"0","4">>, <<"3","0">> >>) @@
  (<<"M","a","y">> :> << <<"0","5">>, <<"3","1">> >>) @@
  (<<"J","u","n">> :> << <<"0","6">>, <<"3","0">> >>) @@
  (<<"J","u","l">> :> << <<"0","7">>, <<"3","1">> >>) @@
  (<<"A","u","g">> :> << <<"0","8">>, <<"3","1">> >>) @@
  (<<"S","e","p">> :> << <<"0","9">>, <<"3","0">> >>) @@
  (<<"O","c","t">> :> << <<"1","0">>, <<"3","1">> >>) @@
  (<<"N","o","v">> :> << <<"1","1">>, <<"3","0">> >>) @@
  (<<"D","e","c">> :> << <<"1","2">>, <<"3","1">> >>)

\* ([0-9]{4}) ([A-Z][a-z]{2}) at the start of s
IsYearMonth(s) ==
  /\ Len(s) >= 8
  /\ \A k \in 1..4 : IsDigit(s[k])
  /\ s[5] = " "
  /\ s[6] \in Upper /\ s[7] \in Lower /\ s[8] \in Lower

\* pmDate1.match(s): ([0-9]{4}) ([A-Z][a-z]{2})[-]([A-Z][a-z]{2})
pmDate1(s) ==
  /\ IsYearMonth(s)
  /\ Len(s) >= 12
  /\ s[9] = "-"
  /\ s[10] \in Upper /\ s[11] \in Lower /\ s[12] \in Lower

\* pmDate2.match(s): ([0-9]{4}) ([A-Z][a-z]{2}) ([0-9]{1,2})
pmDate2(s) ==
  /\ IsYearMonth(s)
  /\ Len(s) >= 10
  /\ s[9] = " "
  /\ IsDigit(s[10])

\* pmDate3.match(s): ([0-9]{4}) ([A-Z][a-z]{2})
pmDate3(s) == IsYearMonth(s)

\* '%s-%s-%s' % (yyyy, mm, dd)
isoDate(yyyy, mm, dd) == yyyy \o <<"-">> \o mm \o <<"-">> \o dd

\* the date with the month and the day that monthMap has for the month name
\* mon, or the KeyError of the lookup
monthEnd(yyyy, mon) ==
  IF mon \in DOMAIN monthMap
  THEN [exc |-> "", date |-> isoDate(yyyy, monthMap[mon][1], monthMap[mon][2])]
  ELSE [exc |-> "KeyError", date |-> None]

\* the date with the day dd of the month named mon, one digit padded to two
monthDay(yyyy, mon, dd) ==
  IF mon \in DOMAIN monthMap
  THEN [exc |-> "", date |-> isoDate(yyyy, monthMap[mon][1],
                                     IF Len(dd) = 1 THEN <<"0">> \o dd ELSE dd)]
  ELSE [exc |-> "KeyError", date |-> None]

\* a conversion that takes the first month of a range of months
getStandardDateFormatFirstMonth(pmd) ==
  IF pmd = None
  THEN [exc |-> "", date |-> isoDate(<<"9","9","9","9">>, <<"9","9">>, <<"9","9">>)]
  ELSE IF pmDate1(pmd) THEN monthEnd(SubSeq(pmd, 1, 4), SubSeq(pmd, 6, 8))
  ELSE IF pmDate2(pmd)
  THEN monthDay(SubSeq(pmd, 1, 4), SubSeq(pmd, 6, 8),
                SubSeq(pmd, 10, IF Len(pmd) >= 11 /\ IsDigit(pmd[11]) THEN 11 ELSE 10))
  ELSE IF pmDate3(pmd) THEN monthEnd(SubSeq(pmd, 1, 4), SubSeq(pmd, 6, 8))
  ELSE [exc |-> "", date |-> isoDate(<<"9","9","9","9">>, <<"9","9">>, <<"9","9">>)]

\* getStandardDateFormat(pmd): the yyyy-mm-dd date, or the exception raised
getStandardDateFormat(pmd) ==
  IF pmd = None
  THEN [exc |-> "", date |-> isoDate(<<"9","9","9","9">>, <<"9","9">>, <<"9","9">>)]
  ELSE IF pmDate1(pmd) THEN monthEnd(SubSeq(pmd, 1, 4), SubSeq(pmd, 10, 12))
  ELSE IF pmDate2(pmd)
  THEN monthDay(SubSeq(pmd, 1, 4), SubSeq(pmd, 6, 8),
                SubSeq(pmd, 10, IF Len(pmd) >= 11 /\ IsDigit(pmd[11]) THEN 11 ELSE 10))
  ELSE IF pmDate3(pmd) THEN monthEnd(SubSeq(pmd, 1, 4), SubSeq(pmd, 6, 8))
  ELSE [exc |-> "", date |-> isoDate(<<"9","9","9","9">>, <<"9","9">>, <<"9","9">>)]

\* a <= b of two str
StrLeq(a, b) == ~StrLess(b, a)

\* a window that does not include its bounds
isWithinExclusive(pubDate, start, stop) ==
  (pubDate # None) /\ StrLess(start, pubDate) /\ StrLess(pubDate, stop)

\* isWithin(pubDate, startDate, stopDate)
isWithin(pubDate, start, stop) ==
  (pubDate # None) /\ StrLeq(start, pubDate) /\ StrLeq(pubDate, stop)

\* the pii and the doi of the i-th search result
PiiOf(i) == <<"S", Digits[i + 1]>>

DoiOf(i) == <<"1","0",".","1","/", Digits[i + 1]>>

\* the i-th search result: from the searched journal or from another one,
\* with a pubmed-id that MGI has, one that it has not, or none
InElsResult(i) ==
  { [pii |-> PiiOf(i), doi |-> DoiOf(i), journal |-> j, pubmedId |-> p] :
      j \in {longName, OtherJournal}, p \in {NoPMID, KnownPmid(i), NewPmid(i)} }

\* the results a search hands to downloadPapers (getTotalNumResults() > 0)
InElsResults ==
  UNION { {f \in [1..n -> UNION {InElsResult(i) : i \in 1..n}] :
             \A i \in 1..n : f[i] \in InElsResult(i)} : n \in 1..MaxElsResults }

\* pmRef.getDate() of the PubMed record: no date, a day inside the window, a
\* month before the window, a season
InPmDates ==
  { None,
    <<"2","0","2","1"," ","J","a","n"," ","8">>,
    <<"2","0","2","0"," ","D","e","c">>,
    <<"2","0","2","1"," ","S","p","r","i","n","g">> }

\* pmAgent.getReferenceInfo(pmid): None (<<>>) or a record with its date
InPmRefs == {<<>>} \cup {<<d>> : d \in InPmDates}

\* coredata.pubType of the article records
PubType == "fla"

\* the pmidCache loaded from its file: empty, or holding the first pii
InPmidCaches == {[k \in {} |-> None], (PiiOf(1) :> NewPmid(1))}

\* the answers to the request of _getDetails: the record, or 1 for a failure
InDetails == {"record", "failed"}

\* the answers to the request of _getPdf: the bytes, or 1 for a failure
InPdfs == {"bytes", "failed"}

EmptyMap == [k \in {} |-> None]

\* d[k] = v of a dict
Put(d, k, v) == (k :> v) @@ d

\* MapCache.contains
cacheContains(contents, key) == key \in DOMAIN contents

\* MapCache.get
cacheGet(contents, key) == IF key \in DOMAIN contents THEN contents[key] ELSE None

\* the state in which downloadPapers starts, before its first loop
StartEls ==
  /\ epc = "dates"
  /\ ei = 1
  /\ pubDateCache = EmptyMap
  /\ pubTypeCache = [k \in {} |-> ""]
  /\ publicationDates = EmptyMap
  /\ missed = 0
  /\ totalCount = 0
  /\ wrongJournalCount = 0
  /\ wrongJournals = <<>>
  /\ inMGI = 0
  /\ refTypes = [k \in {} |-> 0]
  /\ numPMIDs = 0
  /\ numPDFs = 0
  /\ beyondStop = <<>>
  /\ noIDs = <<>>
  /\ noPdfs = <<>>
  /\ downloaded = <<>>
  /\ pdfFiles = [k \in {} |-> ""]
  /\ firstPmids = <<>>
  /\ examined = <<>>
  /\ lookups = <<>>

\* r.getPmid() on a new SciDirectReference, by the answer to its request
getPmid(r, details) == IF details = "record" THEN r.pubmedId ELSE NoPMID

\* the pmid the loops work with: from pmidCache, else from r.getPmid()
pmidOf(r, details) ==
  IF cacheContains(pmidCache, r.pii) THEN cacheGet(pmidCache, r.pii)
  ELSE getPmid(r, details)

\* pmidCache after the lookup of the pmid of r
pmidCacheAfter(r, pmid) ==
  IF ~cacheContains(pmidCache, r.pii) /\ pmid # NoPMID
  THEN Put(pmidCache, r.pii, pmid)
  ELSE pmidCache

\* DetailsFor with a request made whether or not the cache has the pii
DetailsAlways(r) == InDetails

\* the answers that matter for the pmid of r: one when the cache has the pii
DetailsFor(r) == IF cacheContains(pmidCache, r.pii) THEN {"cached"} ELSE InDetails

\* how a loop turn came by the pmid of r: whether pmidCache had the pii and
\* what it held for it, whether _getDetails sent its request, and the pmid
Lookup(r, details, pmid) ==
  [pii |-> r.pii, hit |-> cacheContains(pmidCache, r.pii),
   cached |-> cacheGet(pmidCache, r.pii), requested |-> details \in InDetails,
   pmid |-> pmid]

\* the next turn of a loop over the results, or what follows the loop
NextTurn(after) ==
  IF ei < Len(results) THEN /\ ei' = ei + 1 /\ epc' = epc
  ELSE /\ ei' = 1 /\ epc' = after

(***************************************************************************)
(* One turn of the first loop of downloadPapers: the pmid of the result    *)
(* and its publication date, from the caches or from SciDirect and PubMed. *)
(***************************************************************************)
LookupDate ==
  /\ prog = "elsevier"
  /\ epc = "dates"
  /\ \E r \in {results[ei]} :
     \E details \in DetailsFor(r) :
     \E pmid \in {pmidOf(r, details)} :
     \E pmRef \in (IF pmid # NoPMID /\ ~cacheContains(pubDateCache, pmid)
                   THEN InPmRefs ELSE {<<>>}) :
     \E d \in {IF pmRef # <<>> THEN getStandardDateFormat(pmRef[1])
               ELSE [exc |-> "", date |-> None]} :
       /\ pmidCache' = pmidCacheAfter(r, pmid)
       /\ firstPmids' = Append(firstPmids, pmid)
       /\ lookups' = Append(lookups, Lookup(r, details, pmid))
       /\ IF d.exc # ""
          THEN /\ epc' = "crashed"
               /\ UNCHANGED << ei, publicationDates, pubDateCache, missed >>
          ELSE /\ publicationDates' =
                    IF pmid = NoPMID THEN publicationDates
                    ELSE IF cacheContains(pubDateCache, pmid)
                    THEN Put(publicationDates, pmid, cacheGet(pubDateCache, pmid))
                    ELSE IF pmRef # <<>> THEN Put(publicationDates, pmid, d.date)
                    ELSE publicationDates
               /\ pubDateCache' =
                    IF pmid # NoPMID /\ ~cacheContains(pubDateCache, pmid) /\ pmRef # <<>>
                    THEN Put(pubDateCache, pmid, d.date)
                    ELSE pubDateCache
               /\ missed' = IF pmid \notin DOMAIN publicationDates' THEN missed + 1 ELSE missed
               /\ NextTurn("examine")
  /\ UNCHANGED << prog, results, pubTypeCache, totalCount, wrongJournalCount,
                  wrongJournals, inMGI, refTypes, numPMIDs, numPDFs, beyondStop, noIDs,
                  noPdfs, downloaded, pdfFiles, examined >>
  /\ UNCHANGED << varsPMC, varsUnits >>

\* what the second loop did with a result
Examined(r, pmid, outcome) ==
  [pii |-> r.pii, doi |-> r.doi, journal |-> r.journal, pmid |-> pmid, outcome |-> outcome]

(***************************************************************************)
(* One turn of the second loop of downloadPapers, for a result of another  *)
(* journal than the one searched.                                          *)
(***************************************************************************)
ExamineWrongJournal ==
  /\ prog = "elsevier"
  /\ epc = "examine"
  /\ longName # results[ei].journal
  /\ totalCount' = totalCount + 1
  /\ wrongJournalCount' = wrongJournalCount + 1
  /\ wrongJournals' =
       IF \E k \in 1..Len(wrongJournals) : wrongJournals[k] = results[ei].journal
       THEN wrongJournals
       ELSE Append(wrongJournals, results[ei].journal)
  /\ examined' = Append(examined, Examined(results[ei], None, "wrongJournal"))
  /\ NextTurn("done")
  /\ UNCHANGED << prog, results, pmidCache, pubDateCache, pubTypeCache, publicationDates,
                  missed, inMGI, refTypes, numPMIDs, numPDFs, beyondStop, noIDs, noPdfs,
                  downloaded, pdfFiles, firstPmids, lookups >>
  /\ UNCHANGED << varsPMC, varsUnits >>

\* r.getPubType() after the lookup of the pmid: from the record the object
\* has loaded, else by a new request
PubTypesFor(pmid, details) ==
  IF cacheContains(pubTypeCache, pmid) THEN {cacheGet(pubTypeCache, pmid)}
  ELSE IF details = "record" THEN {PubType}
  ELSE {PubType, "no pubType"}

\* the class of a result of the searched journal, by what the loop has for it
elsOutcome(pmid, pubDate, pdf) ==
  IF contains(pubmedWithPDF, pmid) THEN "inMGI"
  ELSE IF ~isWithin(pubDate, startDate, stopDate) THEN "beyondStop"
  ELSE IF pmid = NoPMID THEN "noID"
  ELSE IF pdf = "bytes" THEN "downloaded"
  ELSE "noPdf"

(***************************************************************************)
(* One turn of the second loop of downloadPapers, for a result of the      *)
(* journal searched.                                                       *)
(***************************************************************************)
Examine ==
  /\ prog = "elsevier"
  /\ epc = "examine"
  /\ longName = results[ei].journal
  /\ \E r \in {results[ei]} :
     \E details \in DetailsFor(r) :
     \E pmid \in {pmidOf(r, details)} :
     \E pubType \in (IF contains(pubmedWithPDF, pmid) THEN {""}
                     ELSE PubTypesFor(pmid, details)) :
     \E pubDate \in {IF pmid \in DOMAIN publicationDates THEN publicationDates[pmid]
                     ELSE None} :
     \E pdf \in (IF ~contains(pubmedWithPDF, pmid) /\ pmid # NoPMID
                    /\ isWithin(pubDate, startDate, stopDate)
                 THEN InPdfs ELSE {"none"}) :
     \E outcome \in {elsOutcome(pmid, pubDate, pdf)} :
       /\ totalCount' = totalCount + 1
       /\ pmidCache' = pmidCacheAfter(r, pmid)
       /\ inMGI' = IF outcome = "inMGI" THEN inMGI + 1 ELSE inMGI
       /\ pubTypeCache' =
            IF outcome # "inMGI" /\ ~cacheContains(pubTypeCache, pmid)
            THEN Put(pubTypeCache, pmid, pubType) ELSE pubTypeCache
       /\ refTypes' =
            IF outcome \in {"noID", "downloaded", "noPdf"}
            THEN Put(refTypes, pubType,
                     (IF pubType \in DOMAIN refTypes THEN refTypes[pubType] ELSE 0) + 1)
            ELSE refTypes
       /\ numPMIDs' = IF outcome \in {"downloaded", "noPdf"} THEN numPMIDs + 1 ELSE numPMIDs
       /\ numPDFs' = IF outcome \in {"downloaded", "noPdf"} THEN numPDFs + 1 ELSE numPDFs
       /\ pdfFiles' =
            IF outcome = "downloaded" THEN Put(pdfFiles, pmid, "pdf")
            ELSE IF outcome = "noPdf" THEN Put(pdfFiles, pmid, "")
            ELSE pdfFiles
       /\ downloaded' = IF outcome = "downloaded" THEN Append(downloaded, pmid) ELSE downloaded
       /\ noPdfs' = IF outcome = "noPdf" THEN Append(noPdfs, pmid) ELSE noPdfs
       /\ noIDs' = IF outcome = "noID" THEN Append(noIDs, r.doi) ELSE noIDs
       /\ beyondStop' = IF outcome = "beyondStop" THEN Append(beyondStop, r.doi) ELSE beyondStop
       /\ examined' = Append(examined, Examined(r, pmid, outcome))
       /\ lookups' = Append(lookups, Lookup(r, details, pmid))
       /\ NextTurn("done")
  /\ UNCHANGED << prog, results, pubDateCache, publicationDates, missed,
                  wrongJournalCount, wrongJournals, firstPmids >>
  /\ UNCHANGED << varsPMC, varsUnits >>

NextEls ==
  \/ LookupDate
  \/ ExamineWrongJournal
  \/ Examine

InitEls ==
  /\ results \in InElsResults
  /\ pmidCache \in InPmidCaches
  /\ StartEls

\* the downloader that does not run stays as it is
IdleEls ==
  /\ results = <<>>
  /\ pmidCache = EmptyMap
  /\ StartEls

(***************************************************************************)
(* Part C.  The start of a downloader script: the statements of the module *)
(* from its imports to its main program, in the order in which Python      *)
(* executes them.  A step either needs a setting of os.environ (the script *)
(* raises when it is missing) or has an effect outside the process.        *)
(***************************************************************************)
\* the settings the scripts read from os.environ
Settings ==
  {"PG_DBSERVER", "PG_DBNAME", "MGI_PUBLICUSER", "MGI_PUBLICPASSWORD", "PDFDIR",
   "WINDOW_SIZE", "PDFDOWNLOADLOGDIR", "ELSEVIER_APIKEY", "ELSEVIER_INSTTOKEN"}

\* for envVar in [...]: if envVar not in os.environ: raise
envVarLoop ==
  << [needs |-> "PG_DBSERVER", effect |-> ""],
     [needs |-> "PG_DBNAME", effect |-> ""],
     [needs |-> "MGI_PUBLICUSER", effect |-> ""],
     [needs |-> "MGI_PUBLICPASSWORD", effect |-> ""],
     [needs |-> "PDFDIR", effect |-> ""],
     [needs |-> "WINDOW_SIZE", effect |-> ""] >>

\* download_pmc_papers.py: import backPopulate (which raises without
\* PDFDOWNLOADLOGDIR), the loop over the settings, caches.initialize (the
\* login is stored, nothing is sent), windowSize, and the main program:
\* basePath, the noPdfFile, and backPopulate.process with the query of
\* PubMedWithPDF, the searches and the files it writes
pmcStartup ==
  << [needs |-> "PDFDOWNLOADLOGDIR", effect |-> ""] >>
  \o envVarLoop
  \o << [needs |-> "", effect |-> ""],
        [needs |-> "WINDOW_SIZE", effect |-> ""],
        [needs |-> "PDFDIR", effect |-> ""],
        [needs |-> "PDFDOWNLOADLOGDIR", effect |-> ""],
        [needs |-> "", effect |-> "query"],
        [needs |-> "", effect |-> "request"],
        [needs |-> "", effect |-> "write"] >>

\* download_elsevier_papers.py: the loop over the settings, caches.initialize,
\* the API key and token, pubmedWithPDF = caches.PubMedWithPDF() (a query),
\* PDFDOWNLOADLOGDIR with SciDirectLib.initLogger (which makes the directory
\* and the log file), PDFDIR, the three MapCache files (read), and the main
\* program with its searches and the files it writes
elsevierStartup ==
  envVarLoop
  \o << [needs |-> "", effect |-> ""],
        [needs |-> "ELSEVIER_APIKEY", effect |-> ""],
        [needs |-> "ELSEVIER_INSTTOKEN", effect |-> ""],
        [needs |-> "", effect |-> "query"],
        [needs |-> "PDFDOWNLOADLOGDIR", effect |-> "write"],
        [needs |-> "PDFDIR", effect |-> ""],
        [needs |-> "", effect |-> "read"],
        [needs |-> "", effect |-> "request"],
        [needs |-> "", effect |-> "write"] >>

startupSteps(script) == IF script = "pmc" THEN pmcStartup ELSE elsevierStartup

\* the settings a script needs somewhere on its way
required(script) ==
  {startupSteps(script)[i].needs : i \in 1..Len(startupSteps(script))} \ {""}

\* no script starts
IdleStartup ==
  startup = [script |-> "", environ |-> {}, step |-> 0, effects |-> <<>>, aborted |-> FALSE]

\* a script starts in some environment
InitStartup ==
  startup \in [script : {"pmc", "elsevier"}, environ : SUBSET Settings, step : {1},
               effects : {<<>>}, aborted : {FALSE}]

\* the next statement raises: the setting it reads is not in os.environ
StartupRaise ==
  /\ prog = "startup"
  /\ ~startup.aborted
  /\ startup.step <= Len(startupSteps(startup.script))
  /\ \E st \in {startupSteps(startup.script)[startup.step]} :
       /\ st.needs # ""
       /\ st.needs \notin startup.environ
       /\ startup' = [startup EXCEPT !.aborted = TRUE]
  /\ UNCHANGED << varsPMC, varsEls, dates, xml, mapc, sd, em >>

\* the next statement is executed, with its effect if it has one
StartupStep ==
  /\ prog = "startup"
  /\ ~startup.aborted
  /\ startup.step <= Len(startupSteps(startup.script))
  /\ \E st \in {startupSteps(startup.script)[startup.step]} :
       /\ st.needs = "" \/ st.needs \in startup.environ
       /\ startup' = [startup EXCEPT
                        !.step = @ + 1,
                        !.effects = IF st.effect # "" THEN Append(@, st.effect) ELSE @]
  /\ UNCHANGED << varsPMC, varsEls, dates, xml, mapc, sd, em >>

NextStartup ==
  \/ StartupRaise
  \/ StartupStep

(***************************************************************************)
(* Part D.  getStandardDateFormat and isWithin on their own: a date as     *)
(* PubMed gives it, its standard form, and the test of a date against a    *)
(* window, as downloadPapers makes them one after the other.               *)
(***************************************************************************)
\* the three-letter tokens in the place of a month: the keys of monthMap and
\* two that are not (as in '2021 Spring', '2021 Win')
InMonthTokens == DOMAIN monthMap \cup {<<"S","p","r">>, <<"W","i","n">>}

InYears == {<<"2","0","2","1">>, <<"2","0","2","4">>}

InDays == {<<"1">>, <<"9">>, <<"1","2">>, <<"3","1">>}

\* pmRef.getDate(): 'YYYY Mon D', 'YYYY Mon', 'YYYY Mon1-Mon2', each with the
\* parts it is made of, and dates of no such form (None is an absent date)
InDates ==
  { [form |-> "day", year |-> y, mon |-> m, mon2 |-> <<>>, day |-> d,
     pmd |-> y \o <<" ">> \o m \o <<" ">> \o d] :
       y \in InYears, m \in InMonthTokens, d \in InDays }
  \cup
  { [form |-> "month", year |-> y, mon |-> m, mon2 |-> <<>>, day |-> <<>>,
     pmd |-> y \o <<" ">> \o m] : y \in InYears, m \in InMonthTokens }
  \cup
  { [form |-> "range", year |-> y, mon |-> m[1], mon2 |-> m[2], day |-> <<>>,
     pmd |-> y \o <<" ">> \o m[1] \o <<"-">> \o m[2]] :
       y \in InYears,
       m \in {<<"J","a","n">>, <<"N","o","v">>, <<"S","p","r">>} \X InMonthTokens }
  \cup
  { [form |-> "other", year |-> <<>>, mon |-> <<>>, mon2 |-> <<>>, day |-> <<>>, pmd |-> t] :
       t \in {None, <<>>, <<"2","0","2","1">>, <<"2","0","2","1","-","0","6","-","0","1">>,
              <<"J","u","n"," ","2","0","2","1">>} }

\* startDate and stopDate of a run: real calendar dates in YYYY-MM-DD form
InWindows ==
  { [start |-> <<"2","0","2","1","-","0","1","-","0","5">>,
     stop |-> <<"2","0","2","1","-","0","6","-","3","0">>],
    [start |-> <<"2","0","2","1","-","0","6","-","0","1">>,
     stop |-> <<"2","0","2","4","-","0","1","-","0","4">>],
    [start |-> <<"2","0","2","4","-","0","2","-","2","8">>,
     stop |-> <<"9","9","9","9","-","1","2","-","3","1">>] }

\* not computed yet
NoDate == [exc |-> "", date |-> <<"?">>]

IdleDates ==
  dates = [in |-> [form |-> "", year |-> <<>>, mon |-> <<>>, mon2 |-> <<>>, day |-> <<>>,
                   pmd |-> None],
           window |-> [start |-> <<>>, stop |-> <<>>],
           phase |-> "idle", std |-> NoDate, d |-> None, within |-> FALSE]

InitDates ==
  dates \in [in : InDates, window : InWindows, phase : {"date"}, std : {NoDate},
             d : {None}, within : {FALSE}]

\* publicationDates[pmid] = getStandardDateFormat(pmRef.getDate())
Standardize ==
  /\ prog = "dates"
  /\ dates.phase = "date"
  /\ dates' = [dates EXCEPT !.std = getStandardDateFormat(dates.in.pmd),
                            !.phase = "standard"]
  /\ UNCHANGED << varsPMC, varsEls, startup, xml, mapc, sd, em >>

\* isWithin(pubDate, startDate, stopDate) for the pubDate the second loop has:
\* the standard form of the date, None when publicationDates has none, or a
\* date that is the start or the stop of the window
TestWithin ==
  /\ prog = "dates"
  /\ dates.phase = "standard"
  /\ \E d \in {None, dates.window.start, dates.window.stop}
              \cup (IF dates.std.exc = "" THEN {dates.std.date} ELSE {}) :
       dates' = [dates EXCEPT !.d = d,
                              !.within = isWithin(d, dates.window.start, dates.window.stop),
                              !.phase = "tested"]
  /\ UNCHANGED << varsPMC, varsEls, startup, xml, mapc, sd, em >>

NextDates ==
  \/ Standardize
  \/ TestWithin

(***************************************************************************)
(* Part E.  lib/python/XmlReader.py: nextTag, Tag, Element, and            *)
(* fromstring with its stack of open elements.  An Element is              *)
(* [tag, attrib, children, text], text being None or a string.             *)
(***************************************************************************)
SINGLE_QUOTE == "'"

DOUBLE_QUOTE == "\""

\* [A-Za-z_0-9\-\.] of TAG_NAME
IsNameChar(c) == c \in Upper \cup Lower \/ IsDigit(c) \/ c \in {"_", "-", "."}

RECURSIVE StripLeft(_)
StripLeft(s) == IF Len(s) > 0 /\ IsSpace(s[1]) THEN StripLeft(Tail(s)) ELSE s

RECURSIVE StripRight(_)
StripRight(s) ==
  IF Len(s) > 0 /\ IsSpace(s[Len(s)]) THEN StripRight(SubSeq(s, 1, Len(s) - 1)) ELSE s

\* s.strip()
Strip(s) == StripRight(StripLeft(s))

\* s.startswith(p)
StartsWith(s, p) == Len(s) >= Len(p) /\ SubSeq(s, 1, Len(p)) = p

RECURSIVE nextTagFrom(_, _, _, _, _, _)
\* the loop of nextTag from s[i] on (i counted from 1); openQuote is "" when
\* no quoted string is open
nextTagFrom(s, i, inTag, openQuote, beforeTag, tag) ==
  IF i > Len(s) THEN [before |-> s, tag |-> <<>>, rest |-> <<>>]
  ELSE IF ~inTag
  THEN IF s[i] = "<"
       THEN nextTagFrom(s, i + 1, TRUE, "", beforeTag, <<s[i]>>)
       ELSE nextTagFrom(s, i + 1, FALSE, "", Append(beforeTag, s[i]), tag)
  ELSE IF openQuote # ""
  THEN nextTagFrom(s, i + 1, TRUE, IF s[i] = openQuote THEN "" ELSE openQuote,
                   beforeTag, Append(tag, s[i]))
  ELSE IF s[i] = SINGLE_QUOTE \/ s[i] = DOUBLE_QUOTE
  THEN nextTagFrom(s, i + 1, TRUE, s[i], beforeTag, Append(tag, s[i]))
  ELSE IF s[i] = ">"
  THEN [before |-> beforeTag, tag |-> Append(tag, s[i]), rest |-> SubSeq(s, i + 1, Len(s))]
  ELSE nextTagFrom(s, i + 1, TRUE, "", beforeTag, Append(tag, s[i]))

RECURSIVE nextTagUnquotedFrom(_, _, _, _, _)
\* the loop of nextTag with quotes taken as any other character of a tag
nextTagUnquotedFrom(s, i, inTag, beforeTag, tag) ==
  IF i > Len(s) THEN [before |-> s, tag |-> <<>>, rest |-> <<>>]
  ELSE IF ~inTag
  THEN IF s[i] = "<"
       THEN nextTagUnquotedFrom(s, i + 1, TRUE, beforeTag, <<s[i]>>)
       ELSE nextTagUnquotedFrom(s, i + 1, FALSE, Append(beforeTag, s[i]), tag)
  ELSE IF s[i] = ">"
  THEN [before |-> beforeTag, tag |-> Append(tag, s[i]), rest |-> SubSeq(s, i + 1, Len(s))]
  ELSE nextTagUnquotedFrom(s, i + 1, TRUE, beforeTag, Append(tag, s[i]))

\* nextTag with the tag ended at the first '>' wherever it stands
nextTagUnquoted(s) == nextTagUnquotedFrom(s, 1, FALSE, <<>>, <<>>)

\* nextTag(s): (text before the next tag, the next tag, the remainder)
nextTag(s) == nextTagFrom(s, 1, FALSE, "", <<>>, <<>>)

NoAttributes == [n \in {} |-> <<>>]

RECURSIVE setAttributesFrom(_, _, _, _, _, _, _)
\* the loop of Tag._setAttributes from remainder[i] on; state is "" (neither),
\* "name" (inName) or "value" (inValue)
setAttributesFrom(remainder, i, state, openQuote, name, value, attributes) ==
  IF i > Len(remainder) THEN attributes
  ELSE IF state = "name"
  THEN IF remainder[i] = "="
       THEN setAttributesFrom(remainder, i + 1, "", openQuote, name, value, attributes)
       ELSE setAttributesFrom(remainder, i + 1, "name", openQuote,
                              Append(name, remainder[i]), value, attributes)
  ELSE IF state = "value"
  THEN IF remainder[i] = openQuote
       THEN setAttributesFrom(remainder, i + 1, "", openQuote, <<>>, <<>>,
                              (name :> value) @@ attributes)
       ELSE setAttributesFrom(remainder, i + 1, "value", openQuote, name,
                              Append(value, remainder[i]), attributes)
  ELSE IF ~IsSpace(remainder[i])
  THEN IF name = <<>>
       THEN setAttributesFrom(remainder, i + 1, "name", openQuote, <<remainder[i]>>,
                              value, attributes)
       ELSE IF remainder[i] = SINGLE_QUOTE \/ remainder[i] = DOUBLE_QUOTE
       THEN setAttributesFrom(remainder, i + 1, "value", remainder[i], name, value,
                              attributes)
       ELSE setAttributesFrom(remainder, i + 1, "", openQuote, name, value, attributes)
  ELSE setAttributesFrom(remainder, i + 1, "", openQuote, name, value, attributes)

\* Tag._setAttributes
setAttributes(remainder) ==
  setAttributesFrom(remainder, 1, "", "", <<>>, <<>>, NoAttributes)

RECURSIVE SpanName(_, _)
\* the length of the run of name characters of s that starts at i
SpanName(s, i) ==
  IF i > Len(s) \/ ~IsNameChar(s[i]) THEN 0 ELSE 1 + SpanName(s, i + 1)

\* the remainder of a tag after its name: without the closing '/>' or '>',
\* stripped
tagRemainder(r) ==
  Strip(IF Len(r) >= 2 /\ SubSeq(r, Len(r) - 1, Len(r)) = <<"/", ">">>
        THEN SubSeq(r, 1, Len(r) - 2)
        ELSE IF Len(r) >= 1 /\ r[Len(r)] = ">" THEN SubSeq(r, 1, Len(r) - 1)
        ELSE r)

\* Tag.__init__ once TAG_NAME has matched: slash is group 1, the name starts
\* at n0 and has n characters
tagOf(tag, slash, n0, n) ==
  [ exc |-> "",
    tagType |-> IF slash THEN "Close"
                ELSE IF tag[Len(tag) - 1] = "/" THEN "Single"
                ELSE "Open",
    tagName |-> SubSeq(tag, n0, n0 + n - 1),
    attributes |-> setAttributes(tagRemainder(SubSeq(tag, n0 + n, Len(tag)))) ]

\* Tag(tag) for a tag as nextTag returns it (it starts with '<'), or the
\* exception raised when TAG_NAME does not match
Tag(tag) ==
  IF Len(tag) >= 2 /\ tag[2] = "/" /\ SpanName(tag, 3) > 0
  THEN tagOf(tag, TRUE, 3, SpanName(tag, 3))
  ELSE IF SpanName(tag, 2) > 0
  THEN tagOf(tag, FALSE, 2, SpanName(tag, 2))
  ELSE [exc |-> "Invalid tag", tagType |-> "", tagName |-> <<>>, attributes |-> NoAttributes]

\* Element(tag)
Element(t) == [tag |-> t.tagName, children |-> <<>>, text |-> None, attrib |-> t.attributes]

\* parent = openElements.pop(); parent.addElement(e); openElements.push(parent)
addToParent(stack, e) ==
  [stack EXCEPT ![Len(stack)].children = Append(@, e)]

\* parent = openElements.pop(); parent.setText(...); openElements.push(parent)
\* when there is text between the tags and an element is open
withText(stack, interveningText) ==
  IF Strip(interveningText) # <<>> /\ stack # <<>>
  THEN [stack EXCEPT ![Len(stack)].text = Strip(interveningText)]
  ELSE stack

\* withTag with a closing tag accepted whatever its name
withTagAnyName(stack, t) ==
  IF t.exc # "" THEN [exc |-> t.exc, root |-> <<>>, stack |-> stack]
  ELSE IF t.tagType = "Open"
  THEN [exc |-> "", root |-> <<>>, stack |-> Append(stack, Element(t))]
  ELSE IF t.tagType = "Close"
  THEN IF stack = <<>>
       THEN [exc |-> "Cannot pop from empty stack", root |-> <<>>, stack |-> stack]
       ELSE IF Len(stack) = 1
       THEN [exc |-> "", root |-> <<stack[1]>>, stack |-> <<>>]
       ELSE [exc |-> "", root |-> <<>>,
             stack |-> addToParent(SubSeq(stack, 1, Len(stack) - 1), stack[Len(stack)])]
  ELSE IF stack = <<>>
  THEN [exc |-> "Found unexpected empty stack", root |-> <<>>, stack |-> stack]
  ELSE [exc |-> "", root |-> <<>>, stack |-> addToParent(stack, Element(t))]

\* the branch of the loop of fromstring for a tag: the stack afterwards, the
\* element returned (<<e>>) if any, and the exception raised if any
withTag(stack, t) ==
  IF t.exc # "" THEN [exc |-> t.exc, root |-> <<>>, stack |-> stack]
  ELSE IF t.tagType = "Open"
  THEN [exc |-> "", root |-> <<>>, stack |-> Append(stack, Element(t))]
  ELSE IF t.tagType = "Close"
  THEN IF stack = <<>>
       THEN [exc |-> "Cannot pop from empty stack", root |-> <<>>, stack |-> stack]
       ELSE IF stack[Len(stack)].tag # t.tagName
       THEN [exc |-> "Mismatching open/close tags", root |-> <<>>,
             stack |-> SubSeq(stack, 1, Len(stack) - 1)]
       ELSE IF Len(stack) = 1
       THEN [exc |-> "", root |-> <<stack[1]>>, stack |-> <<>>]
       ELSE [exc |-> "", root |-> <<>>,
             stack |-> addToParent(SubSeq(stack, 1, Len(stack) - 1), stack[Len(stack)])]
  ELSE IF stack = <<>>
  THEN [exc |-> "Found unexpected empty stack", root |-> <<>>, stack |-> stack]
  ELSE [exc |-> "", root |-> <<>>, stack |-> addToParent(stack, Element(t))]

\* one turn of the loop of fromstring, up to the next call of nextTag
loopTurn(stack, interveningText, tagString) ==
  IF tagString # <<>> /\ ~StartsWith(tagString, <<"<","?","x","m","l">>)
  THEN withTag(withText(stack, interveningText), Tag(tagString))
  ELSE [exc |-> "", root |-> <<>>, stack |-> withText(stack, interveningText)]

(***************************************************************************)
(* The documents given to fromstring.  A document is written from a tree   *)
(* of two levels (the root and its children), which is kept beside it as   *)
(* the tree a reader of the document expects; some documents are then      *)
(* spoilt: the root's closing tag is left out, or names another element.   *)
(***************************************************************************)
\* how an element's attributes are written, and the map they stand for
XmlNoAttributes == [written |-> <<>>, map |-> NoAttributes]

XmlOneAttribute == [written |-> <<" ", "k", "=", "\"", "1", "\"">>, map |-> (<<"k">> :> <<"1">>)]

XmlTwoAttributes ==
  [written |-> <<" ", "k", "=", "'", "a", ">", "b", "'", " ", "n", "=", "\"", "2", " ", "3", "\"">>,
   map |-> (<<"k">> :> <<"a", ">", "b">>) @@ (<<"n">> :> <<"2", " ", "3">>)]

\* values that hold '<', '>' and the other quote character
XmlQuotedAttributes ==
  [written |-> <<" ", "k", "=", "'", "<", "\"", "x", "\"", ">", "'", " ", "n", "=", "\"", "i", "t", "'", "s", ">", "1", "\"">>,
   map |-> (<<"k">> :> <<"<", "\"", "x", "\"", ">">>) @@ (<<"n">> :> <<"i", "t", "'", "s", ">", "1">>)]

XmlSpacedAttribute == [written |-> <<" ", "k", " ", "=", " ", "\"", "1", "\"">>, map |-> (<<"k">> :> <<"1">>)]

\* an element without children: [tag, attrib, children, text]
XmlLeaf(tag, attributes, text) ==
  [tag |-> tag, attrib |-> attributes.map, children |-> <<>>, text |-> text]

\* <tag attributes/>
XmlSingle(tag, attributes) ==
  [written |-> <<"<">> \o tag \o attributes.written \o <<"/", ">">>,
   tree |-> XmlLeaf(tag, attributes, None)]

\* <tag attributes>text</tag>; the text of the element is the stripped text,
\* None when there is none
XmlPair(tag, attributes, text) ==
  [written |-> <<"<">> \o tag \o attributes.written \o <<">">> \o text
               \o <<"<", "/">> \o tag \o <<">">>,
   tree |-> XmlLeaf(tag, attributes, IF Strip(text) = <<>> THEN None ELSE Strip(text))]

\* the children a root is given
InChildren ==
  { XmlSingle(<<"b">>, XmlNoAttributes),
    XmlSingle(<<"b", "r">>, XmlOneAttribute),
    XmlPair(<<"c">>, XmlNoAttributes, <<"x">>),
    XmlPair(<<"c">>, XmlTwoAttributes, <<>>),
    XmlPair(<<"y", "-", "1">>, XmlNoAttributes, <<" ", "x", " ", "y", "\n">>),
    XmlPair(<<"b">>, XmlSpacedAttribute, <<"x">>) }

MaxChildren == 2

\* the text runs of a root: before its first child and after its last
InRuns == {<<>>, <<"t">>, <<"\n", " ">>}

XmlProlog == <<"<", "?", "x", "m", "l", " ", "v", "e", "r", "s", "i", "o", "n", "=", "\"", "1", ".", "0", "\"", "?", ">", "\n">>

RECURSIVE XmlWritten(_)
\* the children written one after the other
XmlWritten(children) ==
  IF children = <<>> THEN <<>> ELSE Head(children).written \o XmlWritten(Tail(children))

\* the text of a root with these two runs, which are one run when no child
\* stands between them: the last run that is not whitespace, stripped
XmlRootText(run1, children, run2) ==
  IF children = <<>>
  THEN IF Strip(run1 \o run2) # <<>> THEN Strip(run1 \o run2) ELSE None
  ELSE IF Strip(run2) # <<>> THEN Strip(run2)
  ELSE IF Strip(run1) # <<>> THEN Strip(run1)
  ELSE None

\* the document of a root "a" with its attributes, text runs and children,
\* its closing tag being written as closing says
XmlDocument(prolog, attributes, run1, children, run2, closing) ==
  [ doc |-> prolog \o <<"<", "a">> \o attributes.written \o <<">">> \o run1
            \o XmlWritten(children) \o run2
            \o (CASE closing = "none" -> <<"<", "/", "a", ">">>
                  [] closing = "mismatch" -> <<"<", "/", "b", ">">>
                  [] closing = "unterminated" -> <<>>),
    tree |-> [tag |-> <<"a">>, attrib |-> attributes.map,
              children |-> [i \in 1..Len(children) |-> children[i].tree],
              text |-> XmlRootText(run1, children, run2)],
    rootTag |-> <<"<", "a">> \o attributes.written \o <<">">>,
    fault |-> closing ]

\* documents written by hand: a root written as one self-closing tag, three
\* levels of elements, a comment, a child closed by another name, a child
\* closed and the root not, text after the last tag, and text without a tag
InOtherDocuments ==
  { [doc |-> <<"<", "a", "/", ">">>,
     tree |-> XmlLeaf(<<"a">>, XmlNoAttributes, None),
     rootTag |-> <<"<", "a", "/", ">">>, fault |-> "none"],
    [doc |-> <<"<", "a", " ", "k", "=", "\"", "1", "\"", " ", "/", ">">>,
     tree |-> XmlLeaf(<<"a">>, XmlOneAttribute, None),
     rootTag |-> <<"<", "a", " ", "k", "=", "\"", "1", "\"", " ", "/", ">">>, fault |-> "none"],
    [doc |-> <<"<", "a", ">", "\n", " ", "<", "b", ">", "<", "c", ">", "x", "<", "/", "c", ">", "<", "/", "b", ">", "\n", "<", "/", "a", ">">>,
     tree |-> [tag |-> <<"a">>, attrib |-> NoAttributes, text |-> None,
              children |-> << [tag |-> <<"b">>, attrib |-> NoAttributes, text |-> None,
                               children |-> << XmlLeaf(<<"c">>, XmlNoAttributes, <<"x">>) >>] >>],
     rootTag |-> <<"<", "a", ">">>, fault |-> "none"],
    [doc |-> <<"<", "a", ">", "<", "!", "-", "-", " ", "c", " ", "-", "-", ">", "<", "/", "a", ">">>,
     tree |-> XmlLeaf(<<"a">>, XmlNoAttributes, None),
     rootTag |-> <<"<", "a", ">">>, fault |-> "none"],
    [doc |-> <<"<", "a", ">", "<", "b", ">", "x", "<", "/", "c", ">", "<", "/", "a", ">">>,
     tree |-> XmlLeaf(<<"a">>, XmlNoAttributes, None),
     rootTag |-> <<"<", "a", ">">>, fault |-> "mismatch"],
    [doc |-> <<"<", "a", ">", "<", "b", ">", "x", "<", "/", "b", ">">>,
     tree |-> XmlLeaf(<<"a">>, XmlNoAttributes, None),
     rootTag |-> <<"<", "a", ">">>, fault |-> "unterminated"],
    [doc |-> <<"<", "a", ">", "x", "<", "/", "a", ">", "y">>,
     tree |-> XmlLeaf(<<"a">>, XmlNoAttributes, <<"x">>),
     rootTag |-> <<"<", "a", ">">>, fault |-> "trailing"],
    [doc |-> <<"<", "a", ">", "<", "b", "/", ">", "<", "/", "a", ">", "\n", "y", " ", "<">>,
     tree |-> XmlLeaf(<<"a">>, XmlNoAttributes, None),
     rootTag |-> <<"<", "a", ">">>, fault |-> "trailing"],
    [doc |-> <<"x", " ", "y">>,
     tree |-> XmlLeaf(<<"a">>, XmlNoAttributes, None),
     rootTag |-> <<>>, fault |-> "notag"],
    [doc |-> <<" ", "x", "<">>,
     tree |-> XmlLeaf(<<"a">>, XmlNoAttributes, None),
     rootTag |-> <<>>, fault |-> "notag"] }

InDocuments ==
  { XmlDocument(prolog, attributes, run1, children, run2, closing) :
      prolog \in {<<>>, XmlProlog},
      attributes \in {XmlNoAttributes, XmlTwoAttributes, XmlQuotedAttributes},
      run1 \in {<<>>, <<"t">>},
      children \in UNION { [1..n -> InChildren] : n \in 0..MaxChildren },
      run2 \in InRuns,
      closing \in {"none", "mismatch", "unterminated"} }
  \cup InOtherDocuments

NoDocument ==
  [doc |-> <<>>, tree |-> XmlLeaf(<<>>, XmlNoAttributes, None), rootTag |-> <<>>,
   fault |-> "none"]

IdleXml ==
  xml = [phase |-> "idle", in |-> NoDocument, interveningText |-> <<>>,
         tagString |-> <<>>, remainder |-> <<>>, openElements |-> <<>>,
         result |-> <<>>, exc |-> ""]

InitXml ==
  \E d \in InDocuments :
    xml = [phase |-> "start", in |-> d, interveningText |-> <<>>,
           tagString |-> <<>>, remainder |-> <<>>, openElements |-> <<>>,
           result |-> <<>>, exc |-> ""]

\* interveningText, tagString, remainder = nextTag(...)
readNextTag(x, s) ==
  [x EXCEPT !.interveningText = nextTag(s).before,
            !.tagString = nextTag(s).tag,
            !.remainder = nextTag(s).rest]

\* fromstring(s) up to its loop
fromstringStart ==
  /\ prog = "xml"
  /\ xml.phase = "start"
  /\ xml' = readNextTag([xml EXCEPT !.phase = "loop"], xml.in.doc)
  /\ UNCHANGED << varsPMC, varsEls, startup, dates, mapc, sd, em >>

\* one turn of the loop of fromstring: it raises, returns the root, or goes
\* on with the next tag
fromstringTurn ==
  /\ prog = "xml"
  /\ xml.phase = "loop"
  /\ xml.tagString # <<>> \/ xml.remainder # <<>>
  /\ \E r \in {loopTurn(xml.openElements, xml.interveningText, xml.tagString)} :
       xml' = IF r.exc # ""
              THEN [xml EXCEPT !.phase = "done", !.exc = r.exc, !.openElements = r.stack]
              ELSE IF r.root # <<>>
              THEN [xml EXCEPT !.phase = "done", !.result = r.root, !.openElements = r.stack]
              ELSE readNextTag([xml EXCEPT !.openElements = r.stack], xml.remainder)
  /\ UNCHANGED << varsPMC, varsEls, startup, dates, mapc, sd, em >>

\* the loop of fromstring ends with neither a tag nor a remainder left
fromstringEnd ==
  /\ prog = "xml"
  /\ xml.phase = "loop"
  /\ xml.tagString = <<>> /\ xml.remainder = <<>>
  /\ xml' = [xml EXCEPT !.phase = "done",
                        !.exc = "Did not find end of XML document properly"]
  /\ UNCHANGED << varsPMC, varsEls, startup, dates, mapc, sd, em >>

NextXml == fromstringStart \/ fromstringTurn \/ fromstringEnd

(***************************************************************************)
(* Part F.  shared/MapCache.py: a map of strings kept in a file.  A file   *)
(* is its text; a MapCache is its contents (a function from keys to        *)
(* values) and the order in which the keys were put.                       *)
(***************************************************************************)
\* chars of _findDelimiter
chars ==
  << " ", ",", ".", ";", ":", "-", "_", "=", "+", "[", "]", "{",
     "}", "|", "!", "@", "#", "$", "%", "^", "&", "*", "(", ")",
     "0", "1", "2", "3", "4", "5", "6", "7", "8", "9", "a", "b",
     "c", "d", "e", "f", "g", "h", "i", "j", "k", "l", "m", "n",
     "o", "p", "r", "s", "t", "u", "v", "w", "x", "y", "z" >>

\* s.find(sub) >= 0
Found(s, sub) ==
  \E i \in 1..(Len(s) - Len(sub) + 1) : SubSeq(s, i, i + Len(sub) - 1) = sub

\* list(self.contents.keys()) + list(self.contents.values())
stringsOf(contents) == DOMAIN contents \cup {contents[k] : k \in DOMAIN contents}

\* the inner loop of _findDelimiter with the keys alone
trialMatchesKeys(contents, trial) == \E s \in DOMAIN contents : Found(s, trial)

\* the inner loop of _findDelimiter: the trial is found in one of the strings
trialMatches(contents, trial) == \E s \in stringsOf(contents) : Found(s, trial)

\* sub stands in s at position i (counted from 1)
FoundAt(s, sub, i) ==
  i >= 1 /\ i + Len(sub) - 1 <= Len(s) /\ SubSeq(s, i, i + Len(sub) - 1) = sub

\* s.find(sub, i) counted from 1, 0 when there is none
FindFrom(s, sub, i) ==
  IF \E j \in i..Len(s) : FoundAt(s, sub, j)
  THEN CHOOSE j \in i..Len(s) :
         FoundAt(s, sub, j) /\ \A k \in i..(j - 1) : ~FoundAt(s, sub, k)
  ELSE 0

RECURSIVE SplitFrom(_, _, _)
\* s[i..].split(delimiter) for a delimiter that is not empty
SplitFrom(s, delimiter, i) ==
  IF FindFrom(s, delimiter, i) = 0 THEN <<SubSeq(s, i, Len(s))>>
  ELSE <<SubSeq(s, i, FindFrom(s, delimiter, i) - 1)>>
       \o SplitFrom(s, delimiter, FindFrom(s, delimiter, i) + Len(delimiter))

\* s.split(delimiter) for a delimiter that is not empty
SplitBy(s, delimiter) == SplitFrom(s, delimiter, 1)

\* the positions of the line breaks of a text
LineBreaks(text) == {i \in 1..Len(text) : text[i] = "\n"}

\* the position of the n-th line break of a text, 0 for n = 0, and the end
\* of the text when it has fewer
LineEnd(text, n) ==
  IF n = 0 THEN 0
  ELSE IF n > Cardinality(LineBreaks(text)) THEN Len(text)
  ELSE CHOOSE i \in LineBreaks(text) :
         Cardinality({j \in LineBreaks(text) : j <= i}) = n

\* fp.readlines(): the lines of a text, each with its line break, the last
\* one without if the text does not end with one
readlines(text) ==
  [ n \in 1..(Cardinality(LineBreaks(text))
              + IF text # <<>> /\ text[Len(text)] # "\n" THEN 1 ELSE 0) |->
      SubSeq(text, LineEnd(text, n - 1) + 1, LineEnd(text, n)) ]

\* s[:-1]
ButLast(s) == SubSeq(s, 1, Len(s) - 1)

RECURSIVE loadLines(_, _, _, _)
\* the loop of _load over lines[i..]: the contents, or the exception of
\* split for an empty delimiter
loadLines(lines, i, delimiter, contents) ==
  IF i > Len(lines) THEN [exc |-> "", contents |-> contents]
  ELSE IF lines[i] = <<>> THEN loadLines(lines, i + 1, delimiter, contents)
  ELSE IF delimiter = <<>> THEN [exc |-> "ValueError", contents |-> contents]
  ELSE IF Len(SplitBy(ButLast(lines[i]), delimiter)) > 1
  THEN loadLines(lines, i + 1, delimiter,
                 Put(contents, SplitBy(ButLast(lines[i]), delimiter)[1],
                     SplitBy(ButLast(lines[i]), delimiter)[2]))
  ELSE loadLines(lines, i + 1, delimiter, contents)

\* _load on the lines of the file
loadFrom(lines) ==
  IF Len(lines) = 0 THEN [exc |-> "", contents |-> EmptyMap]
  ELSE loadLines(lines, 2, ButLast(lines[1]), EmptyMap)

\* MapCache(filename) with replace = False on a file that exists: _load
load(file) == CHOOSE loaded \in {loadFrom(lines) : lines \in {readlines(file)}} : TRUE

RECURSIVE writeLines(_, _, _)
\* the loop of save over the keys
writeLines(keys, contents, delimiter) ==
  IF keys = <<>> THEN <<>>
  ELSE Head(keys) \o delimiter \o contents[Head(keys)] \o <<"\n">>
       \o writeLines(Tail(keys), contents, delimiter)

\* what save writes once the delimiter is found
written(keys, contents, delimiter) ==
  delimiter \o <<"\n">> \o writeLines(keys, contents, delimiter)

RECURSIVE ZPairs(_)
\* 'z' followed by chars[i], for every i up to the last but one
ZPairs(i) == IF i >= Len(chars) THEN <<>> ELSE <<"z", chars[i]>> \o ZPairs(i + 1)

\* the keys and the values the caches are given
InKeys == {<<>>, <<"a">>, <<"a", "z">>, <<"a", " ", "b">>}

InValues == {<<>>, <<"v">>, <<"x", ",", " ", "y">>, ZPairs(1)}

MaxEntries == 2

\* the orders in which the keys of a map can have been put
KeyOrders(contents) ==
  { o \in [1..Cardinality(DOMAIN contents) -> DOMAIN contents] :
      \A i, j \in DOMAIN o : i # j => o[i] # o[j] }

\* the files a MapCache is constructed over that no save has written
InFiles ==
  { <<>>, <<"\n">>, <<"\n", "k", " ", "v", "\n">>, <<" ", "\n", "k", " ", "v", "\n">>, <<" ", "\n", "f", "o", "o", "\n", "k", " ", "v", "\n">>, <<"a", "b">>, <<"=", "\n", "a", "=", "b", "=", "c", "\n", "=", "x", "\n">>, <<"k", " ", "v", "\n">> }

NoMapCache ==
  [phase |-> "idle", contents |-> EmptyMap, keys |-> <<>>, delim |-> <<>>, c |-> 0,
   file |-> <<>>, saved |-> FALSE, loaded |-> [exc |-> "", contents |-> EmptyMap]]

IdleMapCache == mapc = NoMapCache

\* a MapCache that is about to be saved, or a file that is about to be read
InitMapCache ==
  \/ \E ks \in SUBSET InKeys :
       /\ Cardinality(ks) <= MaxEntries
       /\ \E contents \in [ks -> InValues] :
            \E o \in KeyOrders(contents) :
              mapc = [NoMapCache EXCEPT !.phase = "cache", !.contents = contents, !.keys = o]
  \/ \E f \in InFiles : mapc = [NoMapCache EXCEPT !.phase = "file", !.file = f]

\* save() up to the loop of _findDelimiter
saveStart ==
  /\ prog = "map"
  /\ mapc.phase = "cache"
  /\ mapc' = [mapc EXCEPT !.phase = "find", !.delim = <<>>, !.c = 1]
  /\ UNCHANGED << varsPMC, varsEls, startup, dates, xml, sd, em >>

\* one turn of the for loop of _findDelimiter: the trial delim + chars[c] is
\* returned, or the next character is tried
findDelimiterTrial ==
  /\ prog = "map"
  /\ mapc.phase = "find"
  /\ mapc.c <= Len(chars)
  /\ mapc' = IF trialMatches(mapc.contents, Append(mapc.delim, chars[mapc.c]))
             THEN [mapc EXCEPT !.c = @ + 1]
             ELSE [mapc EXCEPT !.phase = "found",
                               !.delim = Append(mapc.delim, chars[mapc.c])]
  /\ UNCHANGED << varsPMC, varsEls, startup, dates, xml, sd, em >>

\* the for loop of _findDelimiter ended with every trial matched: the last
\* character is added to delim and the loop starts again
findDelimiterRound ==
  /\ prog = "map"
  /\ mapc.phase = "find"
  /\ mapc.c > Len(chars)
  /\ mapc' = [mapc EXCEPT !.delim = Append(@, chars[Len(chars)]), !.c = 1]
  /\ UNCHANGED << varsPMC, varsEls, startup, dates, xml, sd, em >>

\* save() from the delimiter on: the file is written
save ==
  /\ prog = "map"
  /\ mapc.phase = "found"
  /\ mapc' = [mapc EXCEPT !.phase = "file", !.saved = TRUE,
                          !.file = written(mapc.keys, mapc.contents, mapc.delim)]
  /\ UNCHANGED << varsPMC, varsEls, startup, dates, xml, sd, em >>

\* MapCache(filename) over the file
construct ==
  /\ prog = "map"
  /\ mapc.phase = "file"
  /\ \E loaded \in {load(mapc.file)} :
       mapc' = [mapc EXCEPT !.phase = "loaded", !.loaded = loaded]
  /\ UNCHANGED << varsPMC, varsEls, startup, dates, xml, sd, em >>

NextMapCache ==
  saveStart \/ findDelimiterTrial \/ findDelimiterRound \/ save \/ construct


(***************************************************************************)
(* Part G.  elsevier/SciDirectLib.py: ElsClient.execGetRequest and         *)
(* SciDirectSearch.execute.  The service is what answers a request: for a  *)
(* GET what urlopen does, for the PUT of a search the page of results      *)
(* that the query's offset and show ask for.  A result is its number in    *)
(* the service's list of matches.                                          *)
(***************************************************************************)
\* what urlopen does with a GET request: it raises HTTPError (the service
\* answers with an error status), it raises URLError (no connection), or it
\* returns a response with a status code and a body
InGetAnswers ==
  { [raises |-> "HTTPError", code |-> 404, body |-> ""],
    [raises |-> "URLError", code |-> 0, body |-> ""],
    [raises |-> "", code |-> 200, body |-> "json"],
    [raises |-> "", code |-> 200, body |-> "bytes"],
    [raises |-> "", code |-> 204, body |-> ""] }

InContentTypes == {"json", "pdf", "foo"}

\* urlopen is not called for a contentType that execGetRequest refuses
NoGetAnswer == [raises |-> "", code |-> 0, body |-> ""]

\* what execGetRequest gives its caller: an exception, or the value out
\* ("1" is the number 1, "json" the unserialized payload, "bytes" the body)
execGetOutcome(contentType, answer) ==
  IF contentType \notin {"json", "pdf"} THEN [exc |-> "ValueError", out |-> ""]
  ELSE IF answer.raises # "" THEN [exc |-> "", out |-> "1"]
  ELSE IF answer.code # 200 THEN [exc |-> "TypeError", out |-> ""]
  ELSE IF contentType = "json"
  THEN IF answer.body = "json" THEN [exc |-> "", out |-> "json"]
       ELSE [exc |-> "JSONDecodeError", out |-> ""]
  ELSE [exc |-> "", out |-> "bytes"]

MaxGets == 2

MaxTotal == 4

MaxIncrement == 3

MaxMaxResults == 3

\* the results the service returns for a query: those from offset + 1 on, as
\* many as show asks for and as there are
Page(total, offset, show) ==
  [i \in 1..(IF total - offset <= 0 THEN 0
             ELSE IF total - offset < show THEN total - offset ELSE show) |-> offset + i]

NoSciDirect ==
  [phase |-> "idle", status_code |-> 0, status_msg |-> "", ts_last_req |-> 0, clock |-> 0,
   gets |-> <<>>, getAll |-> FALSE, maxResults |-> 0, increment |-> 0, total |-> 0,
   puts |-> "", offset |-> 0, results |-> <<>>, tot_num_res |-> -1, exc |-> "",
   dumped |-> FALSE]

IdleSciDirect == sd = NoSciDirect

\* a client that has made no request, and a search that has not been
\* executed; puts says whether the service answers the PUT requests or
\* urlopen raises HTTPError for the one after the first
InitSciDirect ==
  \E getAll \in BOOLEAN, maxResults \in 1..MaxMaxResults, increment \in 1..MaxIncrement,
     total \in 0..MaxTotal, puts \in {"ok", "HTTPError"} :
    sd = [NoSciDirect EXCEPT !.phase = "new", !.getAll = getAll,
                             !.maxResults = maxResults, !.increment = increment,
                             !.total = total, !.puts = puts]

\* elsClient.execGetRequest(URL, contentType)
execGetRequest ==
  /\ prog = "scidirect"
  /\ sd.phase = "new"
  /\ Len(sd.gets) < MaxGets
  /\ \E contentType \in InContentTypes :
     \E answer \in (IF contentType \in {"json", "pdf"} THEN InGetAnswers ELSE {NoGetAnswer}) :
     \E o \in {execGetOutcome(contentType, answer)} :
       sd' = [sd EXCEPT
                !.clock = @ + 1,
                !.ts_last_req = IF contentType \in {"json", "pdf"} /\ answer.raises = ""
                                THEN sd.clock + 1 ELSE @,
                !.status_code = IF contentType \in {"json", "pdf"} /\ answer.raises = ""
                                THEN answer.code ELSE @,
                !.status_msg = IF contentType \in {"json", "pdf"} /\ answer.raises = ""
                                  /\ answer.code = 200
                               THEN contentType ELSE @,
                !.gets = Append(@, [contentType |-> contentType, answer |-> answer,
                                    exc |-> o.exc, out |-> o.out])]
  /\ UNCHANGED << varsPMC, varsEls, startup, dates, xml, mapc, em >>

\* SciDirectSearch.execute() up to its loop: the first call of the API, with
\* display.show set to the increment when getAll, and else as the query or
\* the service has it
executeStart ==
  /\ prog = "scidirect"
  /\ sd.phase = "new"
  /\ \E show \in (IF sd.getAll THEN {sd.increment} ELSE 1..MaxIncrement) :
       sd' = IF sd.total = 0
             THEN [sd EXCEPT !.phase = "done", !.tot_num_res = 0, !.results = <<>>]
             ELSE [sd EXCEPT !.phase = "loop", !.tot_num_res = sd.total,
                             !.results = Page(sd.total, 0, show)]
  /\ UNCHANGED << varsPMC, varsEls, startup, dates, xml, mapc, em >>

\* the condition of the loop of execute
moreCalls ==
  sd.getAll /\ Len(sd.results) < sd.tot_num_res /\ ~(Len(sd.results) >= sd.maxResults)

\* one turn of the loop of execute: the next call of the API, which adds its
\* results or raises
executeCall ==
  /\ prog = "scidirect"
  /\ sd.phase = "loop"
  /\ moreCalls
  /\ sd' = IF sd.puts = "HTTPError"
           THEN [sd EXCEPT !.phase = "done", !.exc = "HTTPError",
                           !.offset = @ + sd.increment]
           ELSE [sd EXCEPT !.offset = @ + sd.increment,
                           !.results = @ \o Page(sd.total, sd.offset + sd.increment,
                                                 sd.increment)]
  /\ UNCHANGED << varsPMC, varsEls, startup, dates, xml, mapc, em >>

\* execute() after its loop: dump.json is written and the search returned
executeEnd ==
  /\ prog = "scidirect"
  /\ sd.phase = "loop"
  /\ ~moreCalls
  /\ sd' = [sd EXCEPT !.phase = "done", !.dumped = TRUE]
  /\ UNCHANGED << varsPMC, varsEls, startup, dates, xml, mapc, em >>

\* getTotalNumResults()
getTotalNumResults == sd.tot_num_res

\* getNumResults()
getNumResults == Len(sd.results)

NextSciDirect == execGetRequest \/ executeStart \/ executeCall \/ executeEnd

(***************************************************************************)
(* Part H.  elsevier/download_elsevier_papers.py: the main program.  The   *)
(* three caches are built over their files when the script is loaded, the  *)
(* journals are searched and processed one after the other, and the        *)
(* caches are saved after the last one.  What downloadPapers does for a    *)
(* journal is here the puts it makes on the caches, and whether it returns *)
(* or raises.                                                              *)
(***************************************************************************)
\* the caches, in the order in which main saves them
CacheNames == <<"pubDate", "pmid", "pubType">>

\* the journals of a run
MainJournals == 2

NoFile == [exists |-> FALSE, text |-> <<>>]

RECURSIVE findDelimiterFrom(_, _, _)
\* the loops of _findDelimiter, at the trial delim + chars[c]
findDelimiterFrom(contents, delim, c) ==
  IF c > Len(chars) THEN findDelimiterFrom(contents, Append(delim, chars[Len(chars)]), 1)
  ELSE IF trialMatches(contents, Append(delim, chars[c]))
  THEN findDelimiterFrom(contents, delim, c + 1)
  ELSE Append(delim, chars[c])

\* _findDelimiter
findDelimiter(contents) == findDelimiterFrom(contents, <<>>, 1)

\* MapCache(filename): the map, its keys in the order of the dict, and the
\* backing file.  The files of a run hold one entry at most.
MapCacheOver(file) ==
  [ contents |-> IF file.exists THEN load(file.text).contents ELSE EmptyMap,
    keys |-> IF file.exists
             THEN CHOOSE o \in KeyOrders(load(file.text).contents) : TRUE
             ELSE <<>>,
    file |-> file ]

\* a put that writes the file as well
putThrough(cache, key, value) ==
  [cache EXCEPT !.contents = Put(@, key, value),
                !.keys = IF key \in DOMAIN cache.contents THEN @ ELSE Append(@, key),
                !.file = [exists |-> TRUE, text |-> <<>>]]

\* MapCache.put
put(cache, key, value) ==
  [cache EXCEPT !.contents = Put(@, key, value),
                !.keys = IF key \in DOMAIN cache.contents THEN @ ELSE Append(@, key)]

\* MapCache.save
saved(cache) ==
  [cache EXCEPT !.file =
     [exists |-> TRUE,
      text |-> written(cache.keys, cache.contents, findDelimiter(cache.contents))]]

PubDateText == <<"2","0","2","1","-","0","2","-","0","1">>

\* the file a cache has when the run starts: none, or the one an earlier run
\* saved with an entry for an article that MGI has
InCacheFile(name) ==
  { NoFile,
    [exists |-> TRUE,
     text |-> IF name = "pmid" THEN written(<<PiiOf(0)>>, PiiOf(0) :> KnownPmid(0), <<" ">>)
              ELSE IF name = "pubDate"
              THEN written(<<KnownPmid(0)>>, KnownPmid(0) :> PubDateText, <<" ">>)
              ELSE written(<<KnownPmid(0)>>, KnownPmid(0) :> <<"f","l","a">>, <<" ">>)] }

\* the put that downloadPapers makes on a cache for the article of journal j:
\* lines 449 and 499, line 460, line 514
PutOf(name, j) ==
  IF name = "pmid" THEN [cache |-> name, key |-> PiiOf(j), value |-> NewPmid(j)]
  ELSE IF name = "pubDate" THEN [cache |-> name, key |-> NewPmid(j), value |-> PubDateText]
  ELSE [cache |-> name, key |-> NewPmid(j), value |-> <<"f","l","a">>]

\* searchJournal: it raises (execute() raises for a request that fails), or
\* the search has no result, or it has some
InSearches == {"raises", "none", "some"}

\* downloadPapers: it returns, or it raises (getStandardDateFormat in the
\* first loop, the re-raise of line 548 in the second)
InOutcomes == {"returned", "raised"}

NoMain ==
  [phase |-> "idle", j |-> 0, s |-> 0, start |-> [n \in {} |-> NoFile],
   caches |-> [n \in {} |-> MapCacheOver(NoFile)], puts |-> {}]

IdleMain == em = NoMain

\* the script is loaded: lines 81-87
InitMain ==
  \E files \in [{"pubDate", "pmid", "pubType"} -> UNION {InCacheFile(n) : n \in {"pubDate", "pmid", "pubType"}}] :
    /\ \A n \in DOMAIN files : files[n] \in InCacheFile(n)
    /\ em = [phase |-> "journal", j |-> 1, s |-> 1, start |-> files,
             caches |-> [n \in DOMAIN files |-> MapCacheOver(files[n])], puts |-> {}]

\* the caches after downloadPapers has made the puts of the names in made
afterPuts(caches, made, j) ==
  [n \in DOMAIN caches |->
     IF n \in made THEN put(caches[n], PutOf(n, j).key, PutOf(n, j).value)
     ELSE caches[n]]

\* one turn of the loop of main over the journals: searchJournal, and
\* downloadPapers when the search has results
mainJournal ==
  /\ prog = "main"
  /\ em.phase = "journal"
  /\ \E search \in InSearches :
     \E made \in (IF search = "some" THEN SUBSET {"pubDate", "pmid", "pubType"} ELSE {{}}) :
     \E outcome \in (IF search = "some" THEN InOutcomes ELSE {"returned"}) :
       em' = [em EXCEPT
                !.caches = afterPuts(@, made, em.j),
                !.puts = @ \cup {PutOf(n, em.j) : n \in made},
                !.phase = IF search = "raises" \/ outcome = "raised" THEN "crashed"
                          ELSE IF em.j < MainJournals THEN "journal" ELSE "save",
                !.j = IF search = "raises" \/ outcome = "raised" THEN @
                      ELSE IF em.j < MainJournals THEN @ + 1 ELSE @]
  /\ UNCHANGED << varsPMC, varsEls, startup, dates, xml, mapc, sd >>

\* the next save() of main: lines 582, 586, 590
mainSave ==
  /\ prog = "main"
  /\ em.phase = "save"
  /\ em' = [em EXCEPT !.caches[CacheNames[em.s]] = saved(@),
                      !.s = @ + 1,
                      !.phase = IF em.s = Len(CacheNames) THEN "done" ELSE "save"]
  /\ UNCHANGED << varsPMC, varsEls, startup, dates, xml, mapc, sd >>

NextMain == mainJournal \/ mainSave

\* no part that is checked on its own runs
IdleUnits ==
  /\ IdleStartup
  /\ IdleDates
  /\ IdleXml
  /\ IdleMapCache
  /\ IdleSciDirect
  /\ IdleMain

vars == << varsPMC, varsEls, varsUnits >>

Init ==
  /\ prog \in {"pmc", "elsevier"}
  /\ InitPMC
  /\ IF prog = "elsevier" THEN InitEls ELSE IdleEls
  /\ IdleUnits

Next == NextPMC \/ NextEls

Spec == Init /\ [][Next]_vars

\* the calls of the Elsevier downloadPapers alone
InitElsevier == Init /\ prog = "elsevier"

SpecEls == InitElsevier /\ [][NextEls]_vars

\* the start of a script alone
StartupOnly ==
  /\ prog = "startup"
  /\ InitPMC
  /\ IdleEls
  /\ InitStartup
  /\ IdleDates
  /\ IdleXml
  /\ IdleMapCache
  /\ IdleSciDirect
  /\ IdleMain

SpecStartup == StartupOnly /\ [][NextStartup]_vars

\* the dates alone
DatesOnly ==
  /\ prog = "dates"
  /\ InitPMC
  /\ IdleEls
  /\ IdleStartup
  /\ InitDates
  /\ IdleXml
  /\ IdleMapCache
  /\ IdleSciDirect
  /\ IdleMain

SpecDates == DatesOnly /\ [][NextDates]_vars

\* the parser alone
XmlOnly ==
  /\ prog = "xml"
  /\ InitPMC
  /\ IdleEls
  /\ IdleStartup
  /\ IdleDates
  /\ InitXml
  /\ IdleMapCache
  /\ IdleSciDirect
  /\ IdleMain

SpecXml == XmlOnly /\ [][NextXml]_vars

\* a MapCache alone; save() and the constructor run to their end
MapCacheOnly ==
  /\ prog = "map"
  /\ InitPMC
  /\ IdleEls
  /\ IdleStartup
  /\ IdleDates
  /\ IdleXml
  /\ InitMapCache
  /\ IdleSciDirect
  /\ IdleMain

SpecMapCache == MapCacheOnly /\ [][NextMapCache]_vars /\ WF_vars(NextMapCache)

\* an ElsClient and a SciDirectSearch alone
SciDirectOnly ==
  /\ prog = "scidirect"
  /\ InitPMC
  /\ IdleEls
  /\ IdleStartup
  /\ IdleDates
  /\ IdleXml
  /\ IdleMapCache
  /\ InitSciDirect
  /\ IdleMain

SpecSciDirect == SciDirectOnly /\ [][NextSciDirect]_vars

\* the main program of the Elsevier downloader alone
MainOnly ==
  /\ prog = "main"
  /\ InitPMC
  /\ IdleEls
  /\ IdleStartup
  /\ IdleDates
  /\ IdleXml
  /\ IdleMapCache
  /\ IdleSciDirect
  /\ InitMain

SpecMain == MainOnly /\ [][NextMain]_vars

(***************************************************************************)
(* Properties.                                                             *)
(***************************************************************************)
\* a step of the loop of _processResults (ProcessArticle)
ArticleStep == prog = "pmc" /\ pc = "process" /\ kidx' = kidx + 1

\* the reporter, lookup and dispatcher calls a step adds to the log
NewCalls == [i \in 1..(Len(log') - Len(log)) |-> log'[Len(log) + i].op]

SkipCalls == {"skipNoPMID", "skipInMgi", "skipWrongType", "skipNewType"}

\* the exclusion a result element meets first in the order no PubMed ID,
\* already in MGI, unwanted type, new type; "" when it meets none
FirstFailing(e) ==
  IF e.pmid = None THEN "skipNoPMID"
  ELSE IF e.pmid \in DbPubmedWithPDF THEN "skipInMgi"
  ELSE IF e.type \in DOMAIN articleTypes /\ ~articleTypes[e.type] THEN "skipWrongType"
  ELSE IF e.type \notin DOMAIN articleTypes THEN "skipNewType"
  ELSE ""

\* the articles a reporter holds as skipped, all four categories together
SkipCount(rep) ==
  Len(rep.noPubmedId) + Len(rep.mgiPubmedIds) + rep.nSkippedByType + rep.nSkippedNewType

\* C1: _wantArticle applies the exclusion checks in the order no PubMed ID,
\* already in MGI, known unwanted type, never-seen type: an article that fails
\* a check is recorded by exactly one reporter call, the one of the first
\* check it fails, and an article that fails none is accepted (the lookup of
\* its PDF follows, and no skip is recorded).
C1_FirstFailingCheckWins ==
  [][ArticleStep =>
       IF FirstFailing(art') # ""
       THEN /\ NewCalls = <<FirstFailing(art')>>
            /\ SkipCount(curReporter') = SkipCount(curReporter) + 1
       ELSE /\ Len(NewCalls) > 0
            /\ NewCalls[1] = "getPdfUrl"
            /\ \A i \in 1..Len(NewCalls) : NewCalls[i] \notin SkipCalls
            /\ SkipCount(curReporter') = SkipCount(curReporter)]_vars

\* C1 witness: an editorial without a PubMed ID was recorded by skipNoPMID
\* and not as an unwanted type
C1_Witness ==
  /\ prog = "pmc"
  /\ art.pmid = None
  /\ art.type = "editorial"
  /\ Len(log) > 0
  /\ log[Len(log)].op = "skipNoPMID"
  /\ curReporter.nSkippedByType = 0
  /\ Len(curReporter.noPubmedId) = 1

\* a step of ProcessArticle for an article whose type is not in articleTypes
NewTypeStep == ArticleStep /\ art'.type \notin DOMAIN articleTypes

\* no job is queued in the step, and no queued job is for a type outside the
\* wanted ones
NotQueued ==
  /\ dispatcher' = dispatcher
  /\ cmds' = cmds
  /\ \A i \in 1..Len(articles') :
       articles'[i].type \in DOMAIN articleTypes /\ articleTypes[articles'[i].type]

\* the step leaves the unwanted-type category of the reporter alone
NotWrongType ==
  /\ curReporter'.nSkippedByType = curReporter.nSkippedByType
  /\ curReporter'.skippedByType = curReporter.skippedByType

\* the step records the article by skipNewType, and by nothing else
RecordedNewType ==
  /\ NewCalls = <<"skipNewType">>
  /\ curReporter'.nSkippedNewType = curReporter.nSkippedNewType + 1
  /\ art'.type \in DOMAIN curReporter'.skippedNewType
  /\ LET l == curReporter'.skippedNewType[art'.type] IN l[Len(l)] = art'.pmcid

\* C4 (amended): an article whose type is absent from articleTypes is never
\* queued and never recorded as an unwanted type; when it has a PubMed ID that
\* is not in MGI it is recorded by skipNewType.
C4_NewTypeRejected ==
  [][NewTypeStep =>
       /\ NotQueued
       /\ NotWrongType
       /\ (art'.pmid # None /\ art'.pmid \notin pubmedWithPDF) => RecordedNewType]_vars

\* C4 as stated: every article whose type is absent from articleTypes is
\* rejected and recorded by skipNewType, not by skipWrongType.
C4_AsStated ==
  [][NewTypeStep => NotQueued /\ NotWrongType /\ RecordedNewType]_vars

\* C4 witness: an article of a new type, with a PubMed ID unknown to MGI, was
\* recorded by skipNewType
C4_Witness ==
  /\ prog = "pmc"
  /\ art.type = "hypothesis"
  /\ art.pmid # None
  /\ art.pmid \notin pubmedWithPDF
  /\ Len(log) > 0
  /\ log[Len(log)].op = "skipNewType"
  /\ curReporter.nSkippedNewType = 1
  /\ curReporter.nSkippedByType = 0

\* the log has a wait() before its i-th call
WaitBefore(i) == \E j \in 1..(i - 1) : log[j].op = "wait"

\* a job was scheduled for the article
Scheduled(id) == \E k \in 1..Len(log) : log[k] = Event("schedule", id)

\* C5: for each journal every job is scheduled before dispatcher.wait() is
\* called (wait() is called when no result element is left), getReturnCode,
\* getStdout and getStderr are called only after wait(), and gotPdf / gotNoPdf
\* is recorded for a scheduled job only after wait().
C5_BarrierBeforeResults ==
  prog = "pmc" =>
    /\ \A i, j \in 1..Len(log) :
         (log[i].op = "schedule" /\ log[j].op = "wait") => i < j
    /\ \A i \in 1..Len(log) :
         log[i].op \in {"getReturnCode", "getStdout", "getStderr"} => WaitBefore(i)
    /\ \A i \in 1..Len(log) :
         (log[i].op \in {"gotPdf", "gotNoPdf"} /\ Scheduled(log[i].id)) => WaitBefore(i)
    /\ dispatcher.waited <=> (\E j \in 1..Len(log) : log[j].op = "wait")
    /\ dispatcher.waited => todo = 0 /\ Len(dispatcher.jobs) = Len(cmds)

\* C5 witness: two jobs were scheduled, wait() returned, both were read
C5_Witness ==
  /\ prog = "pmc"
  /\ dispatcher.waited
  /\ Len(cmds) = 2
  /\ ci = 3
  /\ \E i, j, k \in 1..Len(log) :
       /\ i < j /\ j < k
       /\ log[i].op = "schedule" /\ log[j].op = "wait" /\ log[k].op = "getReturnCode"
       /\ log[k].id = log[i].id

\* the journal of the last reporter returned three results, an editorial, an
\* article without a PubMed ID and one that passed every filter, whose job
\* ended with code 0
ThreeResultsJournal ==
  /\ prog = "pmc"
  /\ reporters # <<>>
  /\ curReporter.totalSearchCount = 3
  /\ seen.unwanted = 1
  /\ seen.noId = 1
  /\ seen.candidate = 1
  /\ jobsOk = 1
  /\ dispatcher.waited
  /\ ci > Len(cmds)

ThreeResultsReport ==
  ("matched" :> 3) @@ ("written" :> 1) @@ ("skippedByType" :> 1) @@ ("noPubmedId" :> 1)

\* C9: such a journal's report shows 3 matched, 1 skipped for its type, 1
\* without PubMed ID and 1 PDF written, and no other count.
C9_ThreeResultsReport ==
  ThreeResultsJournal =>
    /\ getReport(curReporter) = ThreeResultsReport
    /\ summary.printed => summary.reports[Len(reporters)] = ThreeResultsReport

\* C9 witness: the summary of such a journal was printed
C9_Witness == ThreeResultsJournal /\ summary.printed /\ pc = "done"

\* x is an element of the list s
InList(s, x) == \E k \in 1..Len(s) : s[k] = x

\* C2: in the Elsevier downloadPapers every result of the searched journal
\* whose pmid is 'no PMID' is counted in noIDs and not in beyondStop.
C2_NoPmidCountedInNoIDs ==
  \A i \in 1..Len(examined) :
    (examined[i].journal = longName /\ examined[i].pmid = NoPMID) =>
      /\ InList(noIDs, examined[i].doi)
      /\ ~InList(beyondStop, examined[i].doi)

\* PMC downloader: no job is scheduled for an article whose PubMed ID is in
\* PubMedWithPDF, and the reporter of the journal holds one inMgi entry for
\* each result element that has such a PubMed ID
KnownNotScheduledPMC ==
  /\ Len(dispatcher.jobs) = Len(articles)
  /\ \A i \in 1..Len(articles) : ~(articles[i].pmid \in pubmedWithPDF)
  /\ reporters # <<>> => Len(curReporter.mgiPubmedIds) = seen.known

\* Elsevier downloader: no PDF file is written for a PubMed ID that is in
\* PubMedWithPDF
KnownNotWrittenEls ==
  /\ \A p \in DOMAIN pdfFiles : ~(p \in pubmedWithPDF)
  /\ \A k \in 1..Len(downloaded) : ~(downloaded[k] \in pubmedWithPDF)

\* the results examined so far that were excluded as already in MGI
ExaminedInMGI == {i \in 1..Len(examined) : examined[i].outcome = "inMGI"}

ResolvedPmid(i) ==
  IF examined[i].outcome = "wrongJournal" THEN firstPmids[i] ELSE examined[i].pmid

C6_ExitCodeDecides ==
  [][(prog = "pmc" /\ pc = "check" /\ lastJob' \in JobResults /\ log' # log) =>
       /\ pc' # "crashed"
       /\ ci' = ci + 1
       /\ log'[Len(log')] =
            Event(IF lastJob'.retcode = 0 THEN "gotPdf" ELSE "gotNoPdf", articles[ci].pmcid)]_vars

\* the OA service's answer gives no location: an error, or no pdf or tgz link
NoLocation(resp) == resp.error \/ resp.formats \cap {"pdf", "tgz"} = {}

\* C7: when getPdfUrl cannot produce a location for an accepted article, the
\* article is recorded by gotNoPdf, no job is scheduled, and _processResults
\* goes on with the next article.
C7_NoLocationIsFailure ==
  [][(ArticleStep /\ FirstFailing(art') = "" /\ NoLocation(art'.oa)) =>
       /\ pc' # "crashed"
       /\ dispatcher' = dispatcher
       /\ cmds' = cmds
       /\ log'[Len(log')] = Event("gotNoPdf", art'.pmcid)
       /\ Len(curReporter'.noPdf) = Len(curReporter.noPdf) + 1]_vars

\* C8: the Download_Tries written for a PMC ID is 1 plus the Download_Tries
\* that the previous listing at the same path had for it, and 1 when it had
\* none.
C8_TriesAccumulate ==
  (prog = "pmc" /\ pc = "done") =>
    \A p \in DOMAIN listing :
      listing[p] = 1 + (IF p \in DOMAIN prevListing THEN prevListing[p] ELSE 0)

\* C10: when the search document of a journal does not parse, the run goes on
\* with the next journal (or with the summary), and the reporters of the
\* journals before it are kept as they are.
C10_ParseFailureSkipsJournal ==
  [][(prog = "pmc" /\ pc = "search" /\ exc' = "ParseError") =>
       /\ pc' \in {"search", "report"}
       /\ Len(reporters') >= Len(reporters)
       /\ SubSeq(reporters', 1, Len(reporters)) = reporters]_vars

\* C11: in each script, when a setting the script requires is missing, the
\* run aborts before any database query, remote request or file write.
C11_AbortBeforeEffects ==
  (prog = "startup" /\ ~(required(startup.script) \subseteq startup.environ)
     /\ startup.aborted)
    => startup.effects = <<>>

\* the abbreviations of the months, in the order of the calendar
MonthNames ==
  << <<"J","a","n">>, <<"F","e","b">>, <<"M","a","r">>, <<"A","p","r">>, <<"M","a","y">>,
     <<"J","u","n">>, <<"J","u","l">>, <<"A","u","g">>, <<"S","e","p">>, <<"O","c","t">>,
     <<"N","o","v">>, <<"D","e","c">> >>

IsMonthName(t) == \E i \in 1..12 : MonthNames[i] = t

MonthNumber(t) == CHOOSE i \in 1..12 : MonthNames[i] = t

\* YYYY-MM-DD for a year as text and the numbers of a month and a day
CalendarDate(year, m, d) ==
  year \o <<"-">> \o rjust(Str(m), 2, "0") \o <<"-">> \o rjust(Str(d), 2, "0")

\* the last day of a month in a year that is not a leap year
LastDay(m) == DaysInMonth(2021, m)

\* the standard date the claim gives for a date of one of the three forms
ExpectedDate(in) ==
  IF in.form = "day"
  THEN CalendarDate(in.year, MonthNumber(in.mon), IntOf(in.day))
  ELSE IF in.form = "month"
  THEN CalendarDate(in.year, MonthNumber(in.mon), LastDay(MonthNumber(in.mon)))
  ELSE CalendarDate(in.year, MonthNumber(in.mon2), LastDay(MonthNumber(in.mon2)))

\* a date of one of the three forms, its months being months
IsCalendarForm(in) ==
  \/ in.form \in {"day", "month"} /\ IsMonthName(in.mon)
  \/ in.form = "range" /\ IsMonthName(in.mon) /\ IsMonthName(in.mon2)

Standardized == prog = "dates" /\ dates.phase \in {"standard", "tested"}

\* C12: getStandardDateFormat maps 'YYYY Mon D' and 'YYYY Mon DD' to that day
\* with two digits, 'YYYY Mon' to the fixed last day of the month (February
\* 28), and 'YYYY Mon1-Mon2' to the last day of Mon2; '2021 Jun 1' gives
\* '2021-06-01', '2021 Jun' gives '2021-06-30', '2021 Jan-Jul' '2021-07-31'.
C12_StandardDates ==
  Standardized =>
    /\ IsCalendarForm(dates.in) =>
         dates.std = [exc |-> "", date |-> ExpectedDate(dates.in)]
    /\ dates.in.pmd = <<"2","0","2","1"," ","J","u","n"," ","1">> =>
         dates.std.date = <<"2","0","2","1","-","0","6","-","0","1">>
    /\ dates.in.pmd = <<"2","0","2","1"," ","J","u","n">> =>
         dates.std.date = <<"2","0","2","1","-","0","6","-","3","0">>
    /\ dates.in.pmd = <<"2","0","2","1"," ","J","a","n","-","J","u","l">> =>
         dates.std.date = <<"2","0","2","1","-","0","7","-","3","1">>

\* C12 witness: the range of months '2021 Jan-Jul' has been converted
C12_Witness ==
  /\ Standardized
  /\ dates.in.pmd = <<"2","0","2","1"," ","J","a","n","-","J","u","l">>
  /\ dates.std.date = <<"2","0","2","1","-","0","7","-","3","1">>

\* C13: getStandardDateFormat never raises, and gives '9999-99-99' for an
\* absent date and for every string that is not an exact-day, month-only or
\* month-range date, a string with a month token that is no month included.
C13_SentinelForTheRest ==
  Standardized =>
    /\ dates.std.exc = ""
    /\ ~IsCalendarForm(dates.in) =>
         dates.std.date = <<"9","9","9","9","-","9","9","-","9","9">>

\* a <= b in the lexicographic order of strings: equal, or a a proper prefix
\* of b, or a smaller character at the first place where they differ
LexLeq(a, b) ==
  \/ a = b
  \/ Len(a) < Len(b) /\ SubSeq(b, 1, Len(a)) = a
  \/ \E i \in 1..Len(a) :
       /\ i <= Len(b)
       /\ SubSeq(a, 1, i - 1) = SubSeq(b, 1, i - 1)
       /\ Ord(a[i]) < Ord(b[i])

WindowTested == prog = "dates" /\ dates.phase = "tested"

\* C14: isWithin(d, start, stop) is true exactly when d is present and
\* start <= d <= stop as strings, both bounds included; it is false for the
\* sentinel '9999-99-99' whenever stop is a calendar date, and for no date.
C14_WindowInclusive ==
  WindowTested =>
    /\ dates.within <=> /\ dates.d # None
                        /\ LexLeq(dates.window.start, dates.d)
                        /\ LexLeq(dates.d, dates.window.stop)
    /\ dates.d = <<"9","9","9","9","-","9","9","-","9","9">> => ~dates.within
    /\ dates.d = None => ~dates.within

\* C14 witness: a date that is the stop date of the window has been found
\* to be within it
C14_Witness ==
  /\ WindowTested
  /\ dates.d = dates.window.stop
  /\ dates.within

\* fromstring has ended, by a return or by an exception
XmlDone == prog = "xml" /\ xml.phase = "done"

\* fromstring raised and returned no tree
XmlFailed == xml.exc # "" /\ xml.result = <<>>

\* C15: fromstring fails (it raises and returns no tree) for a document in
\* which a closing tag names another element than the one on top of the
\* stack of open elements, and for a document that ends while an element is
\* still open; and whenever its input is used up with an element still open,
\* it has raised.
C15_MalformedFails ==
  XmlDone =>
    /\ xml.in.fault \in {"mismatch", "unterminated"} => XmlFailed
    /\ (xml.tagString = <<>> /\ xml.remainder = <<>> /\ xml.openElements # <<>>)
         => XmlFailed

\* a document whose root is never closed, with a child attached to the open
\* root, has been read to its end and fromstring raised
C15_Witness ==
  /\ XmlDone
  /\ xml.in.fault = "unterminated"
  /\ xml.openElements # <<>>
  /\ xml.openElements[1].children # <<>>
  /\ xml.exc = "Did not find end of XML document properly"
  /\ xml.result = <<>>

\* C16: for every well-formed document fromstring returns the tree of the
\* document: the root's tag and, for every element, its tag name, its
\* attribute map, its children in document order and its text (the last run
\* that is not whitespace).
C16_SameShape ==
  (XmlDone /\ xml.in.fault = "none") => (xml.exc = "" /\ xml.result = <<xml.in.tree>>)

\* _findDelimiter has returned mapc.delim for mapc.contents
DelimiterFound == prog = "map" /\ mapc.phase = "found"

\* C17: for any map contents _findDelimiter terminates, and the string it
\* returns is not empty and is a substring of no key and of no value of the
\* map.
C17_DelimiterFound ==
  /\ [](DelimiterFound =>
          /\ mapc.delim # <<>>
          /\ \A s \in stringsOf(mapc.contents) : ~Found(s, mapc.delim))
  /\ ((prog = "map" /\ mapc.phase = "find") ~> DelimiterFound)

\* a delimiter of two characters has been found for a map in which a key
\* has the first candidate and a value the second
C17_Witness ==
  /\ DelimiterFound
  /\ Len(mapc.delim) = 2
  /\ \E k \in DOMAIN mapc.contents : Found(k, <<" ">>)
  /\ \E k \in DOMAIN mapc.contents : Found(mapc.contents[k], <<",">>)

\* a fresh MapCache has been constructed over the file that save() wrote
SavedAndLoaded == prog = "map" /\ mapc.phase = "loaded" /\ mapc.saved

\* C18: for map contents whose keys and values are strings without line
\* breaks, a fresh MapCache constructed over the file that save() wrote has
\* the saved contents: the same keys and for every key the same value.
C18_RoundTrip ==
  SavedAndLoaded => (mapc.loaded.exc = "" /\ mapc.loaded.contents = mapc.contents)

\* a MapCache has been constructed over a file that no save() wrote
FileLoaded == prog = "map" /\ mapc.phase = "loaded" /\ ~mapc.saved

\* the text is a delimiter line followed by lines key<delimiter>value
IsCacheFile(text) ==
  /\ text # <<>>
  /\ text[Len(text)] = "\n"
  /\ ButLast(readlines(text)[1]) # <<>>
  /\ \A i \in 2..Len(readlines(text)) :
       Len(SplitBy(ButLast(readlines(text)[i]), ButLast(readlines(text)[1]))) = 2

\* C19: constructing a MapCache over an existing file never raises because
\* of the file's content: an empty file yields an empty cache, and so does a
\* file that is not a delimiter line followed by key<delimiter>value lines.
C19_BadFileEmptyCache ==
  FileLoaded =>
    /\ mapc.loaded.exc = ""
    /\ ~IsCacheFile(mapc.file) => mapc.loaded.contents = EmptyMap

\* C20: in downloadPapers the pmid of a result is the one pmidCache holds
\* for its pii whenever the cache has the pii, and no request for the
\* details is then made to find it; a request is made when the cache does
\* not have the pii, and only then; and after a request that gave a pmid
\* other than 'no PMID', pmidCache maps the pii to that pmid.
C20_PmidFromCache ==
  prog = "elsevier" =>
    \A i \in 1..Len(lookups) :
      /\ lookups[i].hit => (lookups[i].pmid = lookups[i].cached /\ ~lookups[i].requested)
      /\ lookups[i].requested <=> ~lookups[i].hit
      /\ (lookups[i].requested /\ lookups[i].pmid # NoPMID)
           => (cacheContains(pmidCache, lookups[i].pii)
               /\ cacheGet(pmidCache, lookups[i].pii) = lookups[i].pmid)

\* the first loop asked for the details of a result and got its pmid, and
\* the second loop then took that pmid from the cache without a request
C20_Witness ==
  /\ prog = "elsevier"
  /\ \E i, j \in 1..Len(lookups) :
       /\ i < j
       /\ lookups[i].pii = lookups[j].pii
       /\ lookups[i].requested /\ lookups[i].pmid # NoPMID
       /\ lookups[j].hit /\ ~lookups[j].requested
       /\ lookups[j].pmid = lookups[i].pmid

\* the keys and the values of the three caches
CacheKeys == DOMAIN pmidCache \cup DOMAIN pubDateCache \cup DOMAIN pubTypeCache

\* C21: no entry of pmidCache, pubDateCache or pubTypeCache comes from a
\* failed or unresolved lookup: none is keyed by 'no PMID' and none holds a
\* 'no ...' value.
C21_NoPlaceholderEntries ==
  prog = "elsevier" =>
    /\ NoPMID \notin CacheKeys
    /\ \A k \in DOMAIN pmidCache : pmidCache[k] # NoPMID
    /\ \A k \in DOMAIN pubTypeCache : pubTypeCache[k] # "no pubType"

\* C22: execGetRequest raises an HTTP error to its caller whenever the
\* request fails with an HTTP error, and returns no value then.
C22_HttpErrorRaised ==
  prog = "scidirect" =>
    \A i \in 1..Len(sd.gets) :
      (sd.gets[i].contentType \in {"json", "pdf"} /\ sd.gets[i].answer.raises = "HTTPError")
        => (sd.gets[i].exc = "HTTPError" /\ sd.gets[i].out = "")

\* execute() has returned
Executed == prog = "scidirect" /\ sd.phase = "done" /\ sd.exc = ""

\* C23: after execute() with getAll = True against a service that returns
\* full pages, getNumResults() is the smaller of getTotalNumResults() and
\* maxResults, for every total, maxResults and increment; when the total is
\* 0 there are no results.
C23_AtMostMaxResults ==
  (Executed /\ sd.getAll) =>
    /\ getNumResults = (IF getTotalNumResults < sd.maxResults THEN getTotalNumResults
                        ELSE sd.maxResults)
    /\ getTotalNumResults = 0 => sd.results = <<>>

\* C24: in downloadPapers no request for the details is made for a result
\* whose journal is not the journal searched.
C24_WrongJournalNoRequest ==
  prog = "elsevier" =>
    \A i \in 1..Len(lookups), k \in 1..Len(results) :
      (results[k].pii = lookups[i].pii /\ results[k].journal # longName)
        => ~lookups[i].requested

\* C25: fromstring returns no tree for a document in which text that is not
\* whitespace stands after the last tag, and none for a document that has
\* text and no tag: both raise.
C25_TrailingTextFails ==
  (XmlDone /\ xml.in.fault \in {"trailing", "notag"}) => XmlFailed

\* fromstring has the first tag of the document that is not the prolog
AtRootTag ==
  /\ prog = "xml"
  /\ xml.phase = "loop"
  /\ xml.openElements = <<>>
  /\ xml.tagString # <<>>
  /\ ~StartsWith(xml.tagString, <<"<", "?", "x", "m", "l">>)

\* C26: nextTag ends a tag at the first '>' outside a quoted span, so that
\* '<', '>' and the other quote character inside a quoted attribute value do
\* not end the tag, and Tag._setAttributes stores each value as it is
\* written, under its attribute name.
C26_QuotedSpans ==
  /\ AtRootTag =>
       /\ xml.tagString = xml.in.rootTag
       /\ Tag(xml.tagString).attributes = xml.in.tree.attrib
  /\ (XmlDone /\ xml.result # <<>>) => xml.result[1].attrib = xml.in.tree.attrib

\* a tree has been returned whose root has the values written with '<', '>'
\* and the other quote character inside them
C26_Witness ==
  /\ XmlDone
  /\ xml.result # <<>>
  /\ xml.in.rootTag = <<"<", "a">> \o XmlQuotedAttributes.written \o <<">">>
  /\ xml.result[1].attrib = XmlQuotedAttributes.map

\* _processResults has returned for the journal of the current reporter
JournalFinished ==
  /\ prog = "pmc"
  /\ pc \in {"search", "report", "write", "done"}
  /\ Len(reporters) > 0

\* the result elements that the loop of _processResults has looked at for the
\* journal of the current reporter
Processed ==
  seen.noId + seen.known + seen.unwanted + seen.newType + seen.candidate

\* the six counts of a reporter
CategoryCounts(rep) ==
  Len(rep.noPubmedId) + Len(rep.mgiPubmedIds) + rep.nSkippedByType
  + rep.nSkippedNewType + rep.nResultsGotPdf + Len(rep.noPdf)

Occurrences(s, x) == Cardinality({i \in 1..Len(s) : s[i] = x})

DictOccurrences(d, x) ==
  Cardinality({p \in UNION {{<<t, i>> : i \in 1..Len(d[t])} : t \in DOMAIN d} :
                 d[p[1]][p[2]] = x})

\* how many times the categories of the current reporter record result k
TimesRecorded(k) ==
  Occurrences(curReporter.noPubmedId, PmcidOf(k))
  + Occurrences(curReporter.mgiPubmedIds, KnownPmid(k))
  + Occurrences(curReporter.mgiPubmedIds, NewPmid(k))
  + DictOccurrences(curReporter.skippedByType, PmcidOf(k))
  + DictOccurrences(curReporter.skippedNewType, PmcidOf(k))
  + Occurrences(log, Event("gotPdf", PmcidOf(k)))
  + Cardinality({i \in 1..Len(curReporter.noPdf) :
                   curReporter.noPdf[i].pmcid = PmcidOf(k)})

\* C27: when _processResults has finished for a journal, the six counts of
\* its reporter (no PubMed ID, in MGI, unwanted type, new type, PDF written,
\* PDF problem) sum to the number of result elements processed, the PDFs
\* written are the gotPdf calls made, and every result element of the journal
\* is recorded exactly once.
C27_EveryArticleInOneCategory ==
  JournalFinished =>
    /\ CategoryCounts(curReporter) = Processed
    /\ curReporter.nResultsGotPdf
         = Cardinality({i \in 1..Len(log) : log[i].op = "gotPdf"})
    /\ \A k \in (kidx - Processed + 1)..kidx : TimesRecorded(k) = 1

\* a journal of three results is finished with one article skipped, one PDF
\* written and one download that failed
C27_Witness ==
  /\ JournalFinished
  /\ Processed = 3
  /\ curReporter.nResultsGotPdf = 1
  /\ Len(curReporter.noPdf) = 1
  /\ CategoryCounts(curReporter) = 3

\* C28: in the Elsevier downloadPapers every file PMID_<id>.pdf of the output
\* directory holds the PDF of an article whose id is in 'downloaded'; an
\* article that is only in 'noPdfs' has no file, empty or otherwise.
C28_OnlyWrittenPdfFiles ==
  prog = "elsevier" =>
    \A pmid \in DOMAIN pdfFiles :
      pdfFiles[pmid] = "pdf" /\ InList(downloaded, pmid)

\* C30: NoPdfWriter.write() completes whatever the dates of the articles are:
\* the step that writes the failure listing never ends the run with an
\* exception, and the listing it leaves names every article whose download
\* failed.
C30_WriteCompletes ==
  [][(prog = "pmc" /\ pc = "report") =>
       /\ pc' = "done"
       /\ \A r \in 1..Len(reporters) :
            \A i \in 1..Len(getArticlesWithNoPdfs(reporters[r])) :
              getArticlesWithNoPdfs(reporters[r])[i].pmcid \in DOMAIN listing']_vars

\* the backing files of the three caches
CacheFiles == [n \in DOMAIN em.caches |-> em.caches[n].file]

\* C29: a put changes the map of its cache and not the backing file: every
\* put made so far is in the map of its cache, and until the journals are
\* done, and in a run that a journal ended with an exception, the three
\* files are what they were when the run started.  A file differs from that
\* only once main has reached its save().
C29_FilesWrittenBySaveOnly ==
  prog = "main" =>
    /\ \A p \in em.puts :
         /\ p.key \in DOMAIN em.caches[p.cache].contents
         /\ em.caches[p.cache].contents[p.key] = p.value
    /\ em.phase \in {"journal", "crashed"} => CacheFiles = em.start
    /\ \A i \in 1..Len(CacheNames) :
         (em.phase = "save" /\ i >= em.s) => CacheFiles[CacheNames[i]] = em.start[CacheNames[i]]

\* the second journal raised after puts were made on all three caches, which
\* all have a file
C29_Witness ==
  /\ prog = "main"
  /\ em.phase = "crashed"
  /\ em.j = 2
  /\ \A n \in DOMAIN em.caches :
       /\ em.start[n].exists
       /\ \E p \in em.puts : p.cache = n
       /\ em.caches[n].contents # load(em.start[n].text).contents
  /\ CacheFiles = em.start

====
